---------------------------- MODULE Spec2Model ----------------------------
(***************************************************************************)
(* Model of the public-explanation command line tool: the cli() pipeline   *)
(* of main.py and the functions of repository.py, github_api.py,           *)
(* content_processor.py and ai_processor.py that it calls.                 *)
(*                                                                         *)
(* Python strings are sequences of one-character strings.  An Optional     *)
(* field is a set: {} is None, {v} is the value v.  Money is counted in    *)
(* micro-dollars (1 USD = 1000000) so that the arithmetic stays integer.   *)
(***************************************************************************)
EXTENDS Integers, Sequences, FiniteSets, TLC

(***************************************************************************)
(* Characters and strings                                                  *)
(***************************************************************************)
LowerChars == <<"a", "b", "c", "d", "e", "f", "g", "h", "i", "j", "k", "l", "m",
                "n", "o", "p", "q", "r", "s", "t", "u", "v", "w", "x", "y", "z">>

UpperChars == <<"A", "B", "C", "D", "E", "F", "G", "H", "I", "J", "K", "L", "M",
                "N", "O", "P", "Q", "R", "S", "T", "U", "V", "W", "X", "Y", "Z">>

DigitChars == <<"0", "1", "2", "3", "4", "5", "6", "7", "8", "9">>

Range(s) == {s[i] : i \in 1..Len(s)}

\* [a-zA-Z0-9]
AlnumChars == Range(LowerChars) \cup Range(UpperChars) \cup Range(DigitChars)

\* the character class [a-zA-Z0-9._-] of the three regular expressions
NameChars == AlnumChars \cup {".", "_", "-"}

\* the characters str.strip() and str.split() treat as whitespace
Whitespace == {" ", "\t", "\n", "\r"}

\* str.lower() on one character
LowerChar(c) ==
    IF \E i \in 1..26 : UpperChars[i] = c
    THEN LowerChars[CHOOSE i \in 1..26 : UpperChars[i] = c]
    ELSE c

\* str.lower()
Lower(s) == [i \in 1..Len(s) |-> LowerChar(s[i])]

\* str.strip()
Strip(s) ==
    LET keep == {i \in 1..Len(s) : s[i] \notin Whitespace}
    IN  IF keep = {} THEN <<>>
        ELSE LET first == CHOOSE i \in keep : \A j \in keep : i <= j
                 last  == CHOOSE i \in keep : \A j \in keep : j <= i
             IN  SubSeq(s, first, last)

\* str.replace(char, '')
RemoveChar(s, char) == SelectSeq(s, LAMBDA c : c # char)

\* str.startswith(p)
StartsWith(s, p) == Len(p) <= Len(s) /\ SubSeq(s, 1, Len(p)) = p

\* `sub in s`
Contains(s, sub) ==
    \E i \in 1..(Len(s) - Len(sub) + 1) : SubSeq(s, i, i + Len(sub) - 1) = sub

\* length of the longest run of characters of cls that starts at s[i]:
\* what a greedy [cls]+ consumes there (0: no match)
ClassRun(s, i, cls) ==
    IF i > Len(s) \/ s[i] \notin cls THEN 0
    ELSE LET stops == {j \in i..Len(s) : s[j] \notin cls}
         IN  IF stops = {} THEN Len(s) - i + 1
             ELSE (CHOOSE j \in stops : \A k \in stops : j <= k) - i

\* a regular expression's `$` at position i (the first position not yet
\* consumed): the end of the string, or just before a final newline
AtDollar(s, i) == i = Len(s) + 1 \/ (i = Len(s) /\ s[i] = "\n")

(***************************************************************************)
(* String literals of the source                                           *)
(***************************************************************************)
HttpPrefix == <<"h", "t", "t", "p", ":", "/", "/", "g", "i", "t", "h", "u", "b", ".", "c", "o", "m", "/">>

HttpsPrefix == <<"h", "t", "t", "p", "s", ":", "/", "/", "g", "i", "t", "h", "u", "b", ".", "c", "o", "m", "/">>

StrNull == <<"n", "u", "l", "l">>

StrUndefined == <<"u", "n", "d", "e", "f", "i", "n", "e", "d">>

StrMockOwner == <<"m", "o", "c", "k", "-", "o", "w", "n", "e", "r">>

StrMockRepo == <<"m", "o", "c", "k", "-", "r", "e", "p", "o">>

\* the backquote character (U+0060), which a TLA+ string cannot hold
Backquote == "BACKQUOTE"

\* slip: `<` is missing from the list
dangerous_chars_WithoutLess == <<Backquote, "$", ";", "|", "&", ">">>

\* dangerous_chars of sanitize_input, in the order of the loop
dangerous_chars == <<Backquote, "$", ";", "|", "&", ">", "<">>

\* mock_results of _mock_search_result, in the dict's insertion order
mock_results == <<
    [term |-> <<"r", "e", "a", "c", "t">>, owner |-> <<"f", "a", "c", "e", "b", "o", "o", "k">>, repo |-> <<"r", "e", "a", "c", "t">>],
    [term |-> <<"r", "e", "a", "c", "t", " ", "r", "o", "u", "t", "e", "r">>, owner |-> <<"r", "e", "m", "i", "x", "-", "r", "u", "n">>, repo |-> <<"r", "e", "a", "c", "t", "-", "r", "o", "u", "t", "e", "r">>],
    [term |-> <<"v", "u", "e">>, owner |-> <<"v", "u", "e", "j", "s">>, repo |-> <<"v", "u", "e">>],
    [term |-> <<"a", "n", "g", "u", "l", "a", "r">>, owner |-> <<"a", "n", "g", "u", "l", "a", "r">>, repo |-> <<"a", "n", "g", "u", "l", "a", "r">>],
    [term |-> <<"e", "x", "p", "r", "e", "s", "s">>, owner |-> <<"e", "x", "p", "r", "e", "s", "s", "j", "s">>, repo |-> <<"e", "x", "p", "r", "e", "s", "s">>],
    [term |-> <<"f", "a", "s", "t", "a", "p", "i">>, owner |-> <<"t", "i", "a", "n", "g", "o", "l", "o">>, repo |-> <<"f", "a", "s", "t", "a", "p", "i">>],
    [term |-> <<"d", "j", "a", "n", "g", "o">>, owner |-> <<"d", "j", "a", "n", "g", "o">>, repo |-> <<"d", "j", "a", "n", "g", "o">>],
    [term |-> <<"f", "l", "a", "s", "k">>, owner |-> <<"p", "a", "l", "l", "e", "t", "s">>, repo |-> <<"f", "l", "a", "s", "k">>],
    [term |-> <<"n", "e", "x", "t">>, owner |-> <<"v", "e", "r", "c", "e", "l">>, repo |-> <<"n", "e", "x", "t", ".", "j", "s">>],
    [term |-> <<"n", "u", "x", "t">>, owner |-> <<"n", "u", "x", "t">>, repo |-> <<"n", "u", "x", "t">>] >>

(***************************************************************************)
(* models.py                                                               *)
(***************************************************************************)
\* RepositoryInfo(owner, name, url, source_type): the four enrichment
\* fields default to None.  size_mb is kept in kilobytes (size_mb * 1024).
RepositoryInfo(owner, name, url, source_type) ==
    [owner |-> owner, name |-> name, url |-> url, source_type |-> source_type,
     description |-> {}, stars |-> {}, size_kb |-> {}, language |-> {}]

\* RepositoryInfo.full_name
full_name(info) == info.owner \o <<"/">> \o info.name

\* RepositoryInfo.github_url
github_url(info) == HttpsPrefix \o info.owner \o <<"/">> \o info.name

(***************************************************************************)
(* repository.py: pure functions                                           *)
(***************************************************************************)
RECURSIVE RemoveAll(_, _, _)
\* the loop of sanitize_input over dangerous_chars[i..]
RemoveAll(s, chars, i) ==
    IF i > Len(chars) THEN s
    ELSE RemoveAll(IF chars[i] \in Range(s) THEN RemoveChar(s, chars[i]) ELSE s,
                   chars, i + 1)

\* RepositoryDiscovery.sanitize_input
sanitize_input(input_str) == RemoveAll(Strip(input_str), dangerous_chars, 1)

\* what `https?://github\.com/` consumes at the start of s (0: no match)
UrlPrefixLen(s) ==
    IF StartsWith(s, HttpsPrefix) THEN Len(HttpsPrefix)
    ELSE IF StartsWith(s, HttpPrefix) THEN Len(HttpPrefix)
    ELSE 0

\* ([a-zA-Z0-9._-]+)/([a-zA-Z0-9._-]+) matched greedily from s[start]:
\* the two groups, or ok = FALSE
TwoSegments(s, start) ==
    LET n1 == ClassRun(s, start, NameChars)
        n2 == ClassRun(s, start + n1 + 1, NameChars)
    IN  IF n1 >= 1 /\ start + n1 <= Len(s) /\ s[start + n1] = "/" /\ n2 >= 1
        THEN [ok |-> TRUE,
              owner |-> SubSeq(s, start, start + n1 - 1),
              repo  |-> SubSeq(s, start + n1 + 1, start + n1 + n2),
              next  |-> start + n1 + n2 + 1]
        ELSE [ok |-> FALSE, owner |-> <<>>, repo |-> <<>>, next |-> start]

\* slip: a lazy `+?` for the name group, which then takes one character
GITHUB_URL_PATTERN_LazyName(s) ==
    LET m == IF UrlPrefixLen(s) = 0
             THEN [ok |-> FALSE, owner |-> <<>>, repo |-> <<>>, next |-> 1]
             ELSE TwoSegments(s, UrlPrefixLen(s) + 1)
    IN  IF m.ok THEN [m EXCEPT !.repo = SubSeq(m.repo, 1, 1)] ELSE m

\* GITHUB_URL_PATTERN.match(s): anchored at the start only
GITHUB_URL_PATTERN(s) ==
    IF UrlPrefixLen(s) = 0
    THEN [ok |-> FALSE, owner |-> <<>>, repo |-> <<>>, next |-> 1]
    ELSE TwoSegments(s, UrlPrefixLen(s) + 1)

\* slip: the pattern without its final `$`
OWNER_REPO_PATTERN_Unanchored(s) == TwoSegments(s, 1)

\* OWNER_REPO_PATTERN.match(s): ^...$
OWNER_REPO_PATTERN(s) ==
    LET m == TwoSegments(s, 1)
    IN  IF m.ok /\ AtDollar(s, m.next) THEN m
        ELSE [ok |-> FALSE, owner |-> <<>>, repo |-> <<>>, next |-> 1]

\* re.match(r'^[a-zA-Z0-9._-]+$', x)
NameFormatOk(x) ==
    LET n == ClassRun(x, 1, NameChars)
    IN  n >= 1 /\ AtDollar(x, n + 1)

\* x.lower() in ['', 'null', 'undefined']
IsInvalidLiteral(x) == Lower(x) \in {<<>>, StrNull, StrUndefined}

\* RepositoryDiscovery.validate_repository_format: (is_valid, error_msg);
\* the message is kept as the field it names and the value it quotes
validate_repository_format(info) ==
    IF ~NameFormatOk(info.owner)
    THEN [is_valid |-> FALSE, field |-> "owner", value |-> info.owner]
    ELSE IF ~NameFormatOk(info.name)
    THEN [is_valid |-> FALSE, field |-> "name", value |-> info.name]
    ELSE IF IsInvalidLiteral(info.owner)
    THEN [is_valid |-> FALSE, field |-> "owner", value |-> info.owner]
    ELSE IF IsInvalidLiteral(info.name)
    THEN [is_valid |-> FALSE, field |-> "name", value |-> info.name]
    ELSE [is_valid |-> TRUE, field |-> "none", value |-> <<>>]

\* search_term.split(): the whitespace-separated words; FirstWord is
\* split()[0], defined when HasWord
HasWord(s) == \E i \in 1..Len(s) : s[i] \notin Whitespace

FirstWord(s) ==
    LET start == CHOOSE i \in 1..Len(s) :
                     s[i] \notin Whitespace /\ \A j \in 1..(i - 1) : s[j] \in Whitespace
    IN  SubSeq(s, start, start + ClassRun(s, start, Range(s) \ Whitespace) - 1)

\* re.sub(r'[^a-zA-Z0-9]', '', w)
OnlyAlnum(w) == SelectSeq(w, LAMBDA c : c \in AlnumChars)

\* the entries of mock_results whose term occurs in the lower-cased input
MockMatches(search_term) ==
    {i \in 1..Len(mock_results) : Contains(Lower(search_term), mock_results[i].term)}

\* RepositoryDiscovery._mock_search_result: raised = TRUE is the IndexError
\* of split()[0] on an input without a word
mock_search_result(search_term) ==
    IF MockMatches(search_term) # {}
    THEN LET i == CHOOSE k \in MockMatches(search_term) :
                      \A j \in MockMatches(search_term) : k <= j
         IN  [raised |-> FALSE,
              info |-> RepositoryInfo(mock_results[i].owner, mock_results[i].repo,
                           HttpsPrefix \o mock_results[i].owner \o <<"/">> \o mock_results[i].repo,
                           "search_term")]
    ELSE IF ~HasWord(search_term)
    THEN [raised |-> TRUE,
          info |-> RepositoryInfo(<<>>, <<>>, <<>>, "search_term")]
    ELSE LET clean_term == OnlyAlnum(FirstWord(search_term))
             name == IF clean_term # <<>> THEN clean_term ELSE StrMockRepo
         IN  [raised |-> FALSE,
              info |-> RepositoryInfo(StrMockOwner, name,
                           HttpsPrefix \o StrMockOwner \o <<"/">> \o name,
                           "search_term")]

\* urllib.parse.urlparse(url).path of a URL that starts with `prefix`
\* (scheme, //, host and the first / of the path), without that first /:
\* the path ends before the first ? or #
UrlPath(url, prefix) ==
    LET ends == {i \in (Len(prefix) + 1)..Len(url) : url[i] \in {"?", "#"}}
        last == IF ends = {} THEN Len(url)
                ELSE (CHOOSE i \in ends : \A j \in ends : i <= j) - 1
    IN  SubSeq(url, Len(prefix) + 1, last)

\* the source kind parse_repository_input gives its (stripped) input
Classify(repository_input) ==
    IF GITHUB_URL_PATTERN(Strip(repository_input)).ok THEN "url"
    ELSE IF OWNER_REPO_PATTERN(Strip(repository_input)).ok THEN "owner_repo"
    ELSE "search_term"

(***************************************************************************)
(* content_processor.py: pure functions                                    *)
(***************************************************************************)
\* number of decimal digits of str(n), n >= 0
Digits(n) == IF n < 10 THEN 1 ELSE IF n < 100 THEN 2 ELSE IF n < 1000 THEN 3 ELSE 4

\* len(warning_msg) of _filter_content_by_size:
\* "\n\n[CONTENT TRUNCATED - Original size exceeded {mb}MB limit]"
WarningMsgLen(max_total_size_mb) == 55 + Digits(max_total_size_mb)

\* ContentProcessor.max_total_size_bytes
max_total_size_bytes(max_total_size_mb) == max_total_size_mb * 1024 * 1024

\* int(max_total_size_bytes * 0.8)
max_chars(max_total_size_mb) == (max_total_size_bytes(max_total_size_mb) * 8) \div 10

\* ContentProcessor._filter_content_by_size on a content of content.chars
\* characters and content.bytes UTF-8 bytes: len() of what it returns
filter_content_by_size(content, max_total_size_mb) ==
    IF content.bytes <= max_total_size_bytes(max_total_size_mb)
    THEN content.chars
    ELSE (IF content.chars <= max_chars(max_total_size_mb)
          THEN content.chars ELSE max_chars(max_total_size_mb))
         + WarningMsgLen(max_total_size_mb)

\* len(content[:k].encode('utf-8')) for a content that repeats one
\* character: every character takes content.bytes / content.chars bytes
PrefixBytes(content, k) ==
    IF content.chars = 0 THEN 0 ELSE k * (content.bytes \div content.chars)

\* ContentProcessor._filter_content_by_size: len(...encode('utf-8')) of what
\* it returns; the marker is ASCII
filtered_bytes(content, max_total_size_mb) ==
    IF content.bytes <= max_total_size_bytes(max_total_size_mb)
    THEN content.bytes
    ELSE PrefixBytes(content, IF content.chars <= max_chars(max_total_size_mb)
                              THEN content.chars ELSE max_chars(max_total_size_mb))
         + WarningMsgLen(max_total_size_mb)

\* the characters of \w
WordChars == AlnumChars \cup {"_"}

\* stop_words of _extract_question_keywords
stop_words ==
    { <<"h", "o", "w">>,
      <<"w", "h", "a", "t">>,
      <<"w", "h", "e", "r", "e">>,
      <<"w", "h", "e", "n">>,
      <<"w", "h", "y">>,
      <<"d", "o", "e", "s">>,
      <<"d", "o">>,
      <<"c", "a", "n">>,
      <<"i", "s">>,
      <<"a", "r", "e">>,
      <<"t", "h", "e">>,
      <<"a">>,
      <<"a", "n">>,
      <<"t", "o">>,
      <<"f", "o", "r">>,
      <<"w", "i", "t", "h">>,
      <<"i", "n">>,
      <<"o", "n">>,
      <<"a", "t">>,
      <<"b", "y">>,
      <<"t", "h", "i", "s">>,
      <<"t", "h", "a", "t">> }

\* tech_terms of _extract_question_keywords, in the order of the loop
tech_terms ==
    << <<"a", "p", "i">>,
       <<"r", "e", "s", "t">>,
       <<"a", "u", "t", "h">>,
       <<"t", "e", "s", "t">>,
       <<"c", "o", "n", "f", "i", "g">>,
       <<"s", "e", "t", "u", "p">>,
       <<"i", "n", "s", "t", "a", "l", "l">>,
       <<"d", "e", "p", "l", "o", "y">>,
       <<"d", "o", "c", "k", "e", "r">>,
       <<"d", "a", "t", "a", "b", "a", "s", "e">>,
       <<"m", "o", "d", "e", "l">>,
       <<"v", "i", "e", "w">>,
       <<"c", "o", "n", "t", "r", "o", "l", "l", "e", "r">>,
       <<"r", "o", "u", "t", "e">>,
       <<"m", "i", "d", "d", "l", "e", "w", "a", "r", "e">> >>

RECURSIVE FindWords(_, _)
\* re.findall(r'\b\w+\b', s) from position i on: the maximal runs of word
\* characters, left to right
FindWords(s, i) ==
    IF i > Len(s) THEN <<>>
    ELSE IF s[i] \notin WordChars THEN FindWords(s, i + 1)
    ELSE <<SubSeq(s, i, i + ClassRun(s, i, WordChars) - 1)>>
             \o FindWords(s, i + ClassRun(s, i, WordChars))

\* list(set(x)): the lists without duplicates that hold the elements of x,
\* in any of the orders the iteration of a set can give
ListOfSet(x) ==
    {order \in [1..Cardinality(Range(x)) -> Range(x)] :
        \A i, j \in DOMAIN order : order[i] = order[j] => i = j}

\* slip: `>=` for `>` in the length filter
extract_question_keywords_MinLen2(q) ==
    LET words == FindWords(Lower(q), 1)
        keywords == SelectSeq(words, LAMBDA word : word \notin stop_words /\ Len(word) >= 2)
        found_terms == SelectSeq(tech_terms, LAMBDA term : Contains(Lower(q), term))
    IN  ListOfSet(keywords \o found_terms)

\* ContentProcessor._extract_question_keywords: the lists it can return
extract_question_keywords(q) ==
    LET words == FindWords(Lower(q), 1)
        keywords == SelectSeq(words, LAMBDA word : word \notin stop_words /\ Len(word) > 2)
        found_terms == SelectSeq(tech_terms, LAMBDA term : Contains(Lower(q), term))
    IN  ListOfSet(keywords \o found_terms)

\* repo_info.language as Python sees it: the characters of the language
\* name GitHub reports
LanguageName(lang) ==
    CASE lang = "Python" -> <<"P", "y", "t", "h", "o", "n">>
      [] lang = "PYTHON" -> <<"P", "Y", "T", "H", "O", "N">>
      [] lang = "JavaScript" -> <<"J", "a", "v", "a", "S", "c", "r", "i", "p", "t">>
      [] lang = "TypeScript" -> <<"T", "y", "p", "e", "S", "c", "r", "i", "p", "t">>
      [] OTHER -> <<"u", "n", "k", "n", "o", "w", "n">>

\* (repo_info.language or 'unknown').lower() == 'python'
IsPython(info) ==
    \E lang \in info.language : Lower(LanguageName(lang)) = <<"p", "y", "t", "h", "o", "n">>

\* any(term in question_lower for term in terms)
AnyTermIn(terms, question_lower) == \E term \in terms : Contains(question_lower, term)

core_patterns == {"README*", "readme*", "CONTRIBUTING*", "LICENSE*"}

python_patterns == {"pyproject.toml", "setup.py", "requirements*.txt", "__init__.py"}

api_terms == {<<"a", "p", "i">>, <<"r", "e", "s", "t">>, <<"e", "n", "d", "p", "o", "i", "n", "t">>}

api_patterns == {"*api*.py", "main.py", "app.py", "docs/tutorial/*.md"}

tutorial_terms == {<<"t", "u", "t", "o", "r", "i", "a", "l">>, <<"e", "x", "a", "m", "p", "l", "e">>, <<"g", "e", "t", "t", "i", "n", "g", " ", "s", "t", "a", "r", "t", "e", "d">>}

tutorial_patterns == {"examples/*", "tutorial/*", "docs/tutorial/*"}

setup_terms == {<<"c", "o", "n", "f", "i", "g">>, <<"s", "e", "t", "u", "p">>, <<"i", "n", "s", "t", "a", "l", "l">>}

setup_patterns == {"setup.py", "pyproject.toml", "requirements*.txt",
                   "Dockerfile", "docker-compose.*"}

\* slip: the question-driven blocks chained with elif
generate_include_patterns_ElseIf(q, info) ==
    core_patterns
    \cup (IF IsPython(info) THEN python_patterns ELSE {})
    \cup (IF AnyTermIn(api_terms, Lower(q)) THEN api_patterns
          ELSE IF AnyTermIn(tutorial_terms, Lower(q)) THEN tutorial_patterns
          ELSE IF AnyTermIn(setup_terms, Lower(q)) THEN setup_patterns
          ELSE {})

\* ContentProcessor._generate_include_patterns(question, repo_info)
generate_include_patterns(q, info) ==
    core_patterns
    \cup (IF IsPython(info) THEN python_patterns ELSE {})
    \cup (IF AnyTermIn(api_terms, Lower(q)) THEN api_patterns ELSE {})
    \cup (IF AnyTermIn(tutorial_terms, Lower(q)) THEN tutorial_patterns ELSE {})
    \cup (IF AnyTermIn(setup_terms, Lower(q)) THEN setup_patterns ELSE {})

\* s.endswith(suffix)
EndsWith(s, suffix) ==
    Len(s) >= Len(suffix) /\ SubSeq(s, Len(s) - Len(suffix) + 1, Len(s)) = suffix

\* s.endswith((suffix, ...))
EndsWithAny(s, suffixes) == \E suffix \in suffixes : EndsWith(s, suffix)

RECURSIVE PathName(_)
\* pathlib.Path(filepath).name for a POSIX path without `.` components: the
\* part after the last slash, slashes at the end dropped first
PathName(path) ==
    IF Len(path) = 0 THEN <<>>
    ELSE IF path[Len(path)] = "/" THEN PathName(SubSeq(path, 1, Len(path) - 1))
    ELSE LET slashes == {i \in 1..Len(path) : path[i] = "/"}
         IN  IF slashes = {} THEN path
             ELSE SubSeq(path, (CHOOSE i \in slashes : \A j \in slashes : j <= i) + 1, Len(path))

license_names == {<<"c", "o", "n", "t", "r", "i", "b", "u", "t", "i", "n", "g", ".", "m", "d">>, <<"c", "o", "n", "t", "r", "i", "b", "u", "t", "i", "n", "g", ".", "r", "s", "t">>, <<"l", "i", "c", "e", "n", "s", "e">>, <<"l", "i", "c", "e", "n", "s", "e", ".", "m", "d">>, <<"l", "i", "c", "e", "n", "s", "e", ".", "t", "x", "t">>}

docs_dirs == {<<"d", "o", "c", "s", "/">>, <<"d", "o", "c", "/">>, <<"d", "o", "c", "u", "m", "e", "n", "t", "a", "t", "i", "o", "n", "/">>}

text_suffixes == {<<".", "m", "d">>, <<".", "r", "s", "t">>, <<".", "t", "x", "t">>}

entry_names == {<<"m", "a", "i", "n", ".", "p", "y">>, <<"a", "p", "p", ".", "p", "y">>, <<"s", "e", "r", "v", "e", "r", ".", "p", "y">>, <<"i", "n", "d", "e", "x", ".", "j", "s">>, <<"a", "p", "p", ".", "j", "s">>, <<"m", "a", "i", "n", ".", "j", "s">>}

manifest_names == {<<"p", "a", "c", "k", "a", "g", "e", ".", "j", "s", "o", "n">>, <<"p", "y", "p", "r", "o", "j", "e", "c", "t", ".", "t", "o", "m", "l">>, <<"s", "e", "t", "u", "p", ".", "p", "y">>, <<"r", "e", "q", "u", "i", "r", "e", "m", "e", "n", "t", "s", ".", "t", "x", "t">>, <<"c", "a", "r", "g", "o", ".", "t", "o", "m", "l">>}

source_suffixes == {<<".", "p", "y">>, <<".", "j", "s">>, <<".", "t", "s">>, <<".", "j", "a", "v", "a">>, <<".", "g", "o">>, <<".", "r", "s">>}

config_suffixes == {<<".", "j", "s", "o", "n">>, <<".", "y", "a", "m", "l">>, <<".", "y", "m", "l">>, <<".", "t", "o", "m", "l">>, <<".", "i", "n", "i">>, <<".", "c", "o", "n", "f">>}

build_names == {<<"d", "o", "c", "k", "e", "r", "f", "i", "l", "e">>, <<"m", "a", "k", "e", "f", "i", "l", "e">>, <<".", "e", "n", "v", ".", "e", "x", "a", "m", "p", "l", "e">>}

\* the if/elif chain of _calculate_file_importance 128-155
base_score(filename, filepath_lower) ==
    IF Contains(filename, <<"r", "e", "a", "d", "m", "e">>) \/ Contains(filename, <<"R", "E", "A", "D", "M", "E">>) THEN 100
    ELSE IF filename \in license_names THEN 90
    ELSE IF AnyTermIn(docs_dirs, filepath_lower) THEN 80
    ELSE IF EndsWithAny(filename, text_suffixes) /\ Contains(filename, <<"d", "o", "c">>) THEN 75
    ELSE IF filename \in entry_names THEN 70
    ELSE IF filename \in manifest_names THEN 65
    ELSE IF EndsWithAny(filename, source_suffixes) /\ ~Contains(filepath_lower, <<"t", "e", "s", "t">>) THEN 60
    ELSE IF EndsWithAny(filename, config_suffixes) THEN 40
    ELSE IF filename \in build_names THEN 45
    ELSE IF Contains(filepath_lower, <<"t", "e", "s", "t">>) \/ Contains(filepath_lower, <<"s", "p", "e", "c">>) THEN 20
    ELSE IF Contains(filepath_lower, <<"e", "x", "a", "m", "p", "l", "e">>) \/ Contains(filepath_lower, <<"d", "e", "m", "o">>) THEN 25
    ELSE 0

RECURSIVE keyword_boost(_, _, _)
\* the loop of _calculate_file_importance 158-160 over question_keywords
keyword_boost(question_keywords, filename, filepath_lower) ==
    IF question_keywords = <<>> THEN 0
    ELSE (IF Contains(filepath_lower, Head(question_keywords))
             \/ Contains(filename, Head(question_keywords))
          THEN 30 ELSE 0)
         + keyword_boost(Tail(question_keywords), filename, filepath_lower)

\* slip: the source-file rule without its test-path exclusion
calculate_file_importance_NoTestExclusion(path, question_keywords) ==
    LET filename == Lower(PathName(path))
        filepath_lower == Lower(path)
        base == base_score(filename, filepath_lower)
    IN  (IF base = 20 /\ EndsWithAny(filename, source_suffixes) THEN 60 ELSE base)
        + keyword_boost(question_keywords, filename, filepath_lower)

\* ContentProcessor._calculate_file_importance(filepath, question_keywords)
calculate_file_importance(path, question_keywords) ==
    LET filename == Lower(PathName(path))
        filepath_lower == Lower(path)
    IN  base_score(filename, filepath_lower)
        + keyword_boost(question_keywords, filename, filepath_lower)

Min(a, b) == IF a <= b THEN a ELSE b

\* the model whose prices estimate_token_cost has: "GPT-4o pricing", the
\* only price entry of the program
pricing_model == "gpt-4o"

\* slip: the response estimate without its cap of 1000
estimate_token_cost_NoCap(content_len, question_len) ==
    LET prompt_tokens == (content_len + question_len) \div 4
        estimated_response_tokens == prompt_tokens \div 10
    IN  [prompt_tokens |-> prompt_tokens,
         estimated_response_tokens |-> estimated_response_tokens,
         total_tokens |-> prompt_tokens + estimated_response_tokens,
         estimated_cost |-> prompt_tokens * 5 + estimated_response_tokens * 15]

\* ContentProcessor.estimate_token_cost on len(content) and len(question);
\* the cost in micro-dollars: 0.005 USD and 0.015 USD per 1000 tokens
estimate_token_cost(content_len, question_len) ==
    LET prompt_tokens == (content_len + question_len) \div 4
        estimated_response_tokens == Min(1000, prompt_tokens \div 10)
    IN  [prompt_tokens |-> prompt_tokens,
         estimated_response_tokens |-> estimated_response_tokens,
         total_tokens |-> prompt_tokens + estimated_response_tokens,
         estimated_cost |-> prompt_tokens * 5 + estimated_response_tokens * 15]

(***************************************************************************)
(* main.py: the conditions of cli()                                        *)
(***************************************************************************)
\* cost_threshold = 0.05 USD, in micro-dollars
cost_threshold == 50000

\* the large-repository threshold of the size warning: 100 MB, in kilobytes
large_repo_kb == 102400

\* slip: the credential is required in a dry run too
CredentialMissing_IgnoresDryRun(dry, key) == ~key

\* `not dry_run and not os.getenv('OPENAI_API_KEY')`
CredentialMissing(dry, key) == ~dry /\ ~key

\* slip: the tools are probed in a dry run too
check_deps_Always(dry) == TRUE

\* check_deps=not dry_run
check_deps(dry) == ~dry

\* slip: `>=` for `>`
NeedsSizeConfirmation_AtLeast(info, frc) ==
    /\ \E kb \in info.size_kb : kb # 0 /\ kb >= large_repo_kb
    /\ ~frc

\* `repo_info.size_mb and repo_info.size_mb > 100 and not force`
NeedsSizeConfirmation(info, frc) ==
    /\ \E kb \in info.size_kb : kb # 0 /\ kb > large_repo_kb
    /\ ~frc

\* slip: `force` for `not force`
NeedsCostConfirmation_ForceInverted(cost, frc) == cost > cost_threshold /\ frc

\* `estimated_cost > cost_threshold and not force`
NeedsCostConfirmation(cost, frc) == cost > cost_threshold /\ ~frc

\* `content_result and not dry_run`
HasContent(result, dry) == result # {} /\ ~dry

\* slip: stdout is returned without the emptiness check
mods_response_NoEmptyCheck(outcome) ==
    IF outcome \in {"ok", "empty"} THEN {"markdown"} ELSE {}

\* `if ai_response:` on the value process_with_mods returns for an outcome
\* of the mods subprocess: only exit 0 with a non-blank stdout is a response
mods_response(outcome) == IF outcome = "ok" THEN {"markdown"} ELSE {}

\* render_with_glow's return value for an outcome of the glow subprocess
glow_success(outcome) == outcome = "ok"

(***************************************************************************)
(* Inputs of a run and answers of the outside world                        *)
(***************************************************************************)
\* default of the --model option
default_model == "gpt-4o"

\* --model values
ModelArgs == {"gpt-4o", "gpt-3.5-turbo"}

\* the longest result list the search request returns (per_page is 10)
MaxResults == 2

\* REPOSITORY arguments: owner/repo, URL, an owner/repo that validation
\* rejects, a term of the static table, an input sanitization changes,
\* the empty string, a term outside the static table
RepositoryArgs ==
    { <<"o", "c", "t", "o", "c", "a", "t", "/", "H", "e", "l", "l", "o", "-", "W", "o", "r", "l", "d">>,
      <<"h", "t", "t", "p", "s", ":", "/", "/", "g", "i", "t", "h", "u", "b", ".", "c", "o", "m", "/", "o", "c", "t", "o", "c", "a", "t", "/", "H", "e", "l", "l", "o", "-", "W", "o", "r", "l", "d", "/">>,
      <<"n", "u", "l", "l", "/", "r", "e", "a", "c", "t">>,
      <<"R", "e", "a", "c", "t", " ", "R", "o", "u", "t", "e", "r">>,
      <<" ", "$", "o", "c", "t", "o", "c", "a", "t", "/", "H", "e", "l", "l", "o", "-", "W", "o", "r", "l", "d", ";", " ">>,
      <<>>,
      <<"m", "y", " ", "p", "r", "o", "j", "e", "c", "t">> }

\* QUESTION arguments
QuestionArgs ==
    { <<"w", "h", "a", "t", " ", "d", "o", "e", "s", " ", "t", "h", "i", "s", " ", "r", "e", "p", "o", " ", "d", "o", "?">>,
      <<"h", "o", "w", " ", "d", "o", "e", "s", " ", "t", "h", "e", " ", "a", "p", "i", " ", "|", " ", "w", "o", "r", "k">> }

\* --max-total-size values
MaxTotalSizeArgs == {0, 50}

\* bodies of a successful GET /repos/{owner}/{repo}: description, stars,
\* size (KB), language
MetadataPool ==
    { [description |-> {}, stars |-> 0, size_kb |-> 0, language |-> {}],
      [description |-> {"Hello"}, stars |-> 1500, size_kb |-> 102400, language |-> {"Python"}],
      [description |-> {"Hello"}, stars |-> 1500, size_kb |-> 102401, language |-> {"Python"}],
      [description |-> {}, stars |-> 7, size_kb |-> 256000, language |-> {"JavaScript"}] }

\* items of a search response, GitHubRepoResult by GitHubRepoResult
SearchPool ==
    { [owner |-> <<"f", "a", "c", "e", "b", "o", "o", "k">>, name |-> <<"r", "e", "a", "c", "t">>,
       description |-> {"UI library"}, stars |-> 200000, size_kb |-> 300000,
       language |-> {"JavaScript"}, url |-> <<"h", "t", "t", "p", "s", ":", "/", "/", "g", "i", "t", "h", "u", "b", ".", "c", "o", "m", "/", "f", "a", "c", "e", "b", "o", "o", "k", "/", "r", "e", "a", "c", "t">>],
      [owner |-> <<"r", "e", "m", "i", "x", "-", "r", "u", "n">>, name |-> <<"r", "e", "a", "c", "t", "-", "r", "o", "u", "t", "e", "r">>,
       description |-> {}, stars |-> 50000, size_kb |-> 20000,
       language |-> {"TypeScript"}, url |-> <<"h", "t", "t", "p", "s", ":", "/", "/", "g", "i", "t", "h", "u", "b", ".", "c", "o", "m", "/", "r", "e", "m", "i", "x", "-", "r", "u", "n", "/", "r", "e", "a", "c", "t", "-", "r", "o", "u", "t", "e", "r">>],
      [owner |-> <<"U", "n", "d", "e", "f", "i", "n", "e", "d">>, name |-> <<"l", "i", "b">>,
       description |-> {}, stars |-> 3, size_kb |-> 10,
       language |-> {}, url |-> <<"h", "t", "t", "p", "s", ":", "/", "/", "g", "i", "t", "h", "u", "b", ".", "c", "o", "m", "/", "U", "n", "d", "e", "f", "i", "n", "e", "d", "/", "l", "i", "b">>] }

\* the result lists a search can return: at most MaxResults distinct items,
\* ordered by stars, descending (sort=stars, order=desc)
SearchResults ==
    UNION { { r \in [1..n -> SearchPool] :
                \A i, j \in 1..n : i < j => r[i].stars > r[j].stars }
            : n \in 0..MaxResults }

\* what gitingest's ingest() can return as content: its number of
\* characters and of UTF-8 bytes
ContentPool ==
    { [chars |-> 0, bytes |-> 0],
      [chars |-> 30749, bytes |-> 30749],
      [chars |-> 30753, bytes |-> 30753],
      [chars |-> 100000, bytes |-> 300000] }

\* answers at a rich Confirm.ask prompt: y, n, Ctrl-C (KeyboardInterrupt),
\* end of input (EOFError)
ConfirmAnswers == {"yes", "no", "interrupt", "eof"}

\* outcomes of subprocess.run(['mods', ...]): exit 0 with text, exit 0 with
\* blank output, non-zero exit, TimeoutExpired, another exception
ModsOutcomes == {"ok", "empty", "nonzero", "timeout", "exception"}

\* outcomes of subprocess.run(['glow', md_file]): exit 0, non-zero exit,
\* TimeoutExpired, another exception
GlowOutcomes == {"ok", "nonzero", "timeout", "exception"}

\* outcomes of lines 263-265 of render_with_glow: the temporary file is
\* created and written; NamedTemporaryFile raises; f.write raises after the
\* file was created
TempFileOutcomes == {"written", "create_failed", "write_failed"}

\* outcomes of GET /rate_limit: quota fine, quota below 5, the request or
\* the parsing of its body fails
RateLimitOutcomes == {"ok", "low", "error"}

\* repo_info before resolution
NoRepositoryInfo == RepositoryInfo(<<>>, <<>>, <<>>, "none")

\* validation result before validation
NoValidation == [is_valid |-> FALSE, field |-> "unset", value |-> <<>>]

(***************************************************************************)
(* State                                                                   *)
(***************************************************************************)
VARIABLES
    pc,                 \* position in cli()
    repository,         \* REPOSITORY argument
    question,           \* QUESTION argument
    dry_run,            \* --dry-run
    force,              \* --force
    no_api,             \* --no-api
    max_total_size,     \* --max-total-size
    api_key,            \* OPENAI_API_KEY is set (and not empty)
    model,              \* --model
    mods_available,     \* AIProcessor.mods_available
    glow_available,     \* AIProcessor.glow_available
    clean_repository,   \* sanitized REPOSITORY
    clean_question,     \* sanitized QUESTION
    results,            \* the list search_repositories returned
    choice,             \* Optional answer at the selection prompt
    keywords,           \* Optional keywords shown in the filtering plan
    include_patterns,   \* Optional set _generate_include_patterns returned last
    token_info,         \* Optional dict of estimate_token_cost
    temp_file,          \* the temporary file of render_with_glow
    filepath,           \* filepath argument of _calculate_file_importance
    score,              \* Optional score _calculate_file_importance returned
    repo_info,          \* the RepositoryInfo
    validation,         \* (is_valid, error_msg) of validate_repository_format
    content_result,     \* Optional dict of process_repository
    estimated_cost,     \* Optional estimated_cost_usd, micro-dollars
    ai_response,        \* Optional response of process_with_mods
    trace,              \* steps taken and external calls made, in order
    reported,           \* panels and messages printed
    exit_code,          \* Optional process exit status
    exit_at             \* the place in cli() where the run ended

vars == <<pc, repository, question, dry_run, force, no_api, max_total_size,
          api_key, model, mods_available, glow_available, clean_repository,
          clean_question, results, choice, keywords, include_patterns,
          token_info, temp_file, filepath, score, repo_info, validation,
          content_result, estimated_cost, ai_response, trace, reported,
          exit_code, exit_at>>

\* the CLI arguments and the environment: never assigned by cli()
args == <<repository, question, dry_run, force, no_api, max_total_size, api_key, model>>

\* the argument and the result of _calculate_file_importance, which cli()
\* never calls
scoring == <<filepath, score>>

\* the state of a run at the entry of cli()
Fresh ==
    /\ pc = "check_key"
    /\ mods_available = FALSE
    /\ glow_available = FALSE
    /\ clean_repository = <<>>
    /\ clean_question = <<>>
    /\ results = <<>>
    /\ choice = {}
    /\ keywords = {}
    /\ include_patterns = {}
    /\ token_info = {}
    /\ temp_file = "none"
    /\ filepath = <<>>
    /\ score = {}
    /\ repo_info = NoRepositoryInfo
    /\ validation = NoValidation
    /\ content_result = {}
    /\ estimated_cost = {}
    /\ ai_response = {}
    /\ trace = <<>>
    /\ reported = {}
    /\ exit_code = {}
    /\ exit_at = "running"

Init ==
    /\ repository \in RepositoryArgs
    /\ question \in QuestionArgs
    /\ dry_run \in BOOLEAN
    /\ force \in BOOLEAN
    /\ no_api \in BOOLEAN
    /\ max_total_size \in MaxTotalSizeArgs
    /\ api_key \in BOOLEAN
    /\ model = default_model
    /\ Fresh

\* sys.exit(code), or cli() returning (code 0), at the place `at`
Exit(code, at) ==
    /\ pc' = "exited"
    /\ exit_code' = {code}
    /\ exit_at' = at

\* the step continues at `next`
Goto(next) ==
    /\ pc' = next
    /\ UNCHANGED <<exit_code, exit_at>>

(***************************************************************************)
(* cli(): one action per step                                              *)
(***************************************************************************)
\* main.py 50-60: the credential check
CheckCredential ==
    /\ pc = "check_key"
    /\ IF CredentialMissing(dry_run, api_key)
       THEN /\ reported' = reported \cup {"Configuration Error"}
            /\ Exit(1, "no_key")
       ELSE /\ reported' = reported
            /\ Goto("init")
    /\ UNCHANGED <<args, scoring, include_patterns, token_info, temp_file,
                   choice, keywords, mods_available, glow_available, clean_repository,
                   clean_question, results, repo_info, validation,
                   content_result, estimated_cost, ai_response, trace>>

\* main.py 76-84 and AIProcessor.__init__/_check_dependencies: the two
\* `--version` subprocesses run only when check_deps
InitComponents ==
    /\ pc = "init"
    /\ IF check_deps(dry_run)
       THEN \E mods_found, glow_found \in BOOLEAN :
               /\ mods_available' = mods_found
               /\ glow_available' = glow_found
               /\ trace' = trace \o <<"mods_version", "glow_version">>
               /\ reported' = IF mods_found /\ glow_found THEN reported
                              ELSE reported \cup {"Optional Dependencies Missing"}
       ELSE UNCHANGED <<mods_available, glow_available, trace, reported>>
    /\ Goto("sanitize")
    /\ UNCHANGED <<args, scoring, include_patterns, token_info, temp_file,
                   choice, keywords, clean_repository, clean_question, results, repo_info,
                   validation, content_result, estimated_cost, ai_response>>

\* main.py 87-92: both arguments are sanitized
Sanitize ==
    /\ pc = "sanitize"
    /\ clean_repository' = sanitize_input(repository)
    /\ clean_question' = sanitize_input(question)
    /\ trace' = trace \o <<"sanitize">>
    /\ Goto("parse")
    /\ UNCHANGED <<args, scoring, include_patterns, token_info, temp_file,
                   choice, keywords, mods_available, glow_available, results, repo_info,
                   validation, content_result, estimated_cost, ai_response,
                   reported>>

\* RepositoryDiscovery.parse_repository_input up to its first call of the
\* GitHub API; without the API it runs to its return (or to the IndexError
\* of _mock_search_result, which cli() catches at main.py 236-244)
ParseRepositoryInput ==
    /\ pc = "parse"
    /\ trace' = trace \o <<"parse">>
    /\ LET repository_input == Strip(clean_repository)
           url_match == GITHUB_URL_PATTERN(repository_input)
           owner_repo_match == OWNER_REPO_PATTERN(repository_input)
           use_api == ~no_api
           mock == mock_search_result(repository_input)
       IN  IF url_match.ok
           THEN /\ repo_info' = RepositoryInfo(url_match.owner, url_match.repo,
                                               repository_input, "url")
                /\ Goto(IF use_api THEN "rate_limit_info" ELSE "validate")
                /\ reported' = reported
           ELSE IF owner_repo_match.ok
           THEN /\ repo_info' = RepositoryInfo(owner_repo_match.owner,
                                    owner_repo_match.repo,
                                    HttpsPrefix \o owner_repo_match.owner
                                        \o <<"/">> \o owner_repo_match.repo,
                                    "owner_repo")
                /\ Goto(IF use_api THEN "rate_limit_info" ELSE "validate")
                /\ reported' = reported
           ELSE IF use_api
           THEN /\ repo_info' = repo_info
                /\ Goto("rate_limit_search")
                /\ reported' = reported
           ELSE IF mock.raised
           THEN /\ repo_info' = repo_info
                /\ reported' = reported \cup {"Unexpected error"}
                /\ Exit(1, "exception")
           ELSE /\ repo_info' = mock.info
                /\ Goto("validate")
                /\ reported' = reported
    /\ UNCHANGED <<args, scoring, include_patterns, token_info, temp_file,
                   choice, keywords, mods_available, glow_available, clean_repository,
                   clean_question, results, validation, content_result,
                   estimated_cost, ai_response>>

\* slip: a failed rate-limit request is raised to the caller
CheckRateLimits_RaisesOnError ==
    /\ pc \in {"rate_limit_info", "rate_limit_search"}
    /\ trace' = trace \o <<"rate_limit">>
    /\ \E outcome \in RateLimitOutcomes :
          IF outcome = "error"
          THEN /\ reported' = reported \cup {"Unexpected error"}
               /\ Exit(1, "exception")
          ELSE /\ reported' = IF outcome = "low"
                              THEN reported \cup {"Rate Limit Warning"}
                              ELSE reported
               /\ Goto(IF pc = "rate_limit_info" THEN "get_info" ELSE "search")
    /\ UNCHANGED <<args, scoring, include_patterns, token_info, temp_file,
                   choice, keywords, mods_available, glow_available, clean_repository,
                   clean_question, results, repo_info, validation,
                   content_result, estimated_cost, ai_response>>

\* GitHubAPI._check_rate_limits, called first by search_repositories and by
\* get_repository_info: every failure is swallowed
CheckRateLimits ==
    /\ pc \in {"rate_limit_info", "rate_limit_search"}
    /\ \E outcome \in RateLimitOutcomes :
          reported' = IF outcome = "low"
                      THEN reported \cup {"Rate Limit Warning"}
                      ELSE reported
    /\ trace' = trace \o <<"rate_limit">>
    /\ Goto(IF pc = "rate_limit_info" THEN "get_info" ELSE "search")
    /\ UNCHANGED <<args, scoring, include_patterns, token_info, temp_file,
                   choice, keywords, mods_available, glow_available, clean_repository,
                   clean_question, results, repo_info, validation,
                   content_result, estimated_cost, ai_response>>

\* slip: a failed lookup is raised instead of giving None
GetRepositoryInfo_RaisesOnFailure ==
    /\ pc = "get_info"
    /\ trace' = trace \o <<"get_repository_info">>
    /\ \/ \E github_info \in MetadataPool :
             /\ repo_info' = [repo_info EXCEPT
                                 !.description = github_info.description,
                                 !.stars = {github_info.stars},
                                 !.size_kb = {github_info.size_kb},
                                 !.language = github_info.language]
             /\ reported' = reported
             /\ Goto("validate")
       \/ \E failure \in {"Repository not found", "Error fetching repository info"} :
             /\ repo_info' = repo_info
             /\ reported' = reported \cup {failure, "Unexpected error"}
             /\ Exit(1, "exception")
       \/ /\ repo_info' = repo_info
          /\ reported' = reported \cup {"Unexpected error"}
          /\ Exit(1, "exception")
    /\ UNCHANGED <<args, scoring, include_patterns, token_info, temp_file,
                   choice, keywords, mods_available, glow_available, clean_repository,
                   clean_question, results, validation, content_result,
                   estimated_cost, ai_response>>

\* GitHubAPI.get_repository_info 117-140 and the merge of
\* parse_repository_input 66-73 / 91-98.  A 404 and a RequestException give
\* None; a body without the expected keys raises KeyError, which only
\* cli() catches
GetRepositoryInfo ==
    /\ pc = "get_info"
    /\ trace' = trace \o <<"get_repository_info">>
    /\ \/ \E github_info \in MetadataPool :
             /\ repo_info' = [repo_info EXCEPT
                                 !.description = github_info.description,
                                 !.stars = {github_info.stars},
                                 !.size_kb = {github_info.size_kb},
                                 !.language = github_info.language]
             /\ reported' = reported
             /\ Goto("validate")
       \/ \E failure \in {"Repository not found", "Error fetching repository info"} :
             /\ repo_info' = repo_info
             /\ reported' = reported \cup {failure}
             /\ Goto("validate")
       \/ /\ repo_info' = repo_info
          /\ reported' = reported \cup {"Unexpected error"}
          /\ Exit(1, "exception")
    /\ UNCHANGED <<args, scoring, include_patterns, token_info, temp_file,
                   choice, keywords, mods_available, glow_available, clean_repository,
                   clean_question, results, validation, content_result,
                   estimated_cost, ai_response>>

\* GitHubAPI.search_repositories 58-98 (every error gives []) and
\* _search_repositories 118-123: no result raises ValueError
SearchRepositories ==
    /\ pc = "search"
    /\ trace' = trace \o <<"search">>
    /\ \E found \in SearchResults :
          /\ results' = found
          /\ IF found = <<>>
             THEN /\ reported' = reported \cup {"No repositories found", "Unexpected error"}
                  /\ Exit(1, "exception")
             ELSE /\ reported' = reported
                  /\ Goto("select")
    /\ UNCHANGED <<args, scoring, include_patterns, token_info, temp_file,
                   choice, keywords, mods_available, glow_available, clean_repository,
                   clean_question, repo_info, validation, content_result,
                   estimated_cost, ai_response>>

\* _search_repositories 130-139: the RepositoryInfo of the selected result
FromSearchResult(selected) ==
    [owner |-> selected.owner, name |-> selected.name, url |-> selected.url,
     source_type |-> "search_term", description |-> selected.description,
     stars |-> {selected.stars}, size_kb |-> {selected.size_kb},
     language |-> selected.language]

\* slip: the first result is returned whatever the answer
SelectRepositoryInteractive_IgnoresChoice ==
    /\ pc = "select"
    /\ IF Len(results) = 1
       THEN /\ repo_info' = FromSearchResult(results[1])
            /\ choice' = choice
            /\ trace' = trace
            /\ reported' = reported
            /\ Goto("validate")
       ELSE /\ trace' = trace \o <<"select_prompt">>
            /\ \/ \E answer \in 1..Len(results) :
                     /\ choice' = {answer}
                     /\ repo_info' = FromSearchResult(results[1])
                     /\ reported' = reported
                     /\ Goto("validate")
               \/ /\ choice' = choice
                  /\ repo_info' = repo_info
                  /\ reported' = reported \cup {"Selection cancelled", "Unexpected error"}
                  /\ Exit(1, "exception")
    /\ UNCHANGED <<args, scoring, include_patterns, token_info, temp_file,
                   keywords, mods_available, glow_available, clean_repository,
                   clean_question, results, validation, content_result,
                   estimated_cost, ai_response>>

\* GitHubAPI.select_repository_interactive and _search_repositories
\* 126-139: a single result is taken without a prompt; otherwise the answer
\* is a number of 1..len(results) (an empty answer is the default, 1) and
\* results[choice - 1] is taken; Ctrl-C or end of input at the prompt gives
\* None, which raises ValueError
SelectRepositoryInteractive ==
    /\ pc = "select"
    /\ IF Len(results) = 1
       THEN /\ repo_info' = FromSearchResult(results[1])
            /\ choice' = choice
            /\ trace' = trace
            /\ reported' = reported
            /\ Goto("validate")
       ELSE /\ trace' = trace \o <<"select_prompt">>
            /\ \/ \E answer \in 1..Len(results) :
                     /\ choice' = {answer}
                     /\ repo_info' = FromSearchResult(results[answer])
                     /\ reported' = reported
                     /\ Goto("validate")
               \/ /\ choice' = choice
                  /\ repo_info' = repo_info
                  /\ reported' = reported \cup {"Selection cancelled", "Unexpected error"}
                  /\ Exit(1, "exception")
    /\ UNCHANGED <<args, scoring, include_patterns, token_info, temp_file,
                   keywords, mods_available, glow_available, clean_repository,
                   clean_question, results, validation, content_result,
                   estimated_cost, ai_response>>

\* slip: the validation result is printed but the run goes on
Validate_NoExit ==
    /\ pc = "validate"
    /\ validation' = validate_repository_format(repo_info)
    /\ trace' = trace \o <<"validate">>
    /\ reported' = reported \cup (IF validation'.is_valid
                                  THEN {"Repository Discovery"}
                                  ELSE {"Invalid Repository"})
    /\ Goto("size_gate")
    /\ UNCHANGED <<args, scoring, include_patterns, token_info, temp_file,
                   choice, keywords, mods_available, glow_available, clean_repository,
                   clean_question, results, repo_info, content_result,
                   estimated_cost, ai_response>>

\* main.py 98-128: validation of the descriptor
Validate ==
    /\ pc = "validate"
    /\ validation' = validate_repository_format(repo_info)
    /\ trace' = trace \o <<"validate">>
    /\ IF ~validation'.is_valid
       THEN /\ reported' = reported \cup {"Invalid Repository"}
            /\ Exit(1, "invalid")
       ELSE /\ reported' = reported \cup {"Repository Discovery"}
            /\ Goto("size_gate")
    /\ UNCHANGED <<args, scoring, include_patterns, token_info, temp_file,
                   choice, keywords, mods_available, glow_available, clean_repository,
                   clean_question, results, repo_info, content_result,
                   estimated_cost, ai_response>>

\* how cli() ends on an answer other than yes at a Confirm.ask prompt:
\* sys.exit(0) on no, `except KeyboardInterrupt` on Ctrl-C, `except
\* Exception` on EOFError
Declined(answer, at) ==
    IF answer = "no" THEN Exit(0, at)
    ELSE IF answer = "interrupt" THEN Exit(0, "interrupt")
    ELSE Exit(1, "exception")

\* what is printed on an answer at a Confirm.ask prompt whose `no` message
\* is cancelled and whose `yes` message is confirmed
AnswerMessages(answer, cancelled, confirmed) ==
    IF answer = "no" THEN cancelled
    ELSE IF answer = "yes" THEN confirmed
    ELSE IF answer = "interrupt" THEN {"Operation cancelled by user"}
    ELSE {"Unexpected error"}

\* main.py 136-153: the large-repository warning
SizeGate ==
    /\ pc = "size_gate"
    /\ IF NeedsSizeConfirmation(repo_info, force)
       THEN /\ trace' = trace \o <<"size_prompt">>
            /\ \E answer \in ConfirmAnswers :
                  /\ reported' = reported \cup {"Size Warning"}
                        \cup AnswerMessages(answer, {"Processing cancelled by user"}, {})
                  /\ IF answer = "yes" THEN Goto("extract")
                     ELSE Declined(answer, "size_declined")
       ELSE /\ trace' = trace
            /\ reported' = reported
            /\ Goto("extract")
    /\ UNCHANGED <<args, scoring, include_patterns, token_info, temp_file,
                   choice, keywords, mods_available, glow_available, clean_repository,
                   clean_question, results, repo_info, validation,
                   content_result, estimated_cost, ai_response>>

\* main.py 156 and ContentProcessor.process_repository (called without the
\* question, which defaults to ""): None in a dry run (after the filtering
\* plan is shown, before ingest is called) and when anything raises; otherwise the dict
\* with the content after _filter_content_by_size
ProcessRepository ==
    /\ pc = "extract"
    /\ IF dry_run
       THEN /\ content_result' = {}
            /\ \E returned \in extract_question_keywords(<<>>) : keywords' = {returned}
            /\ include_patterns' = {generate_include_patterns(<<>>, repo_info)}
            /\ trace' = trace \o <<"process_repository">>
            /\ reported' = reported \cup {"Dry run: Would process repository"}
       ELSE /\ keywords' = keywords
            /\ include_patterns' = {generate_include_patterns(<<>>, repo_info)}
            /\ trace' = trace \o <<"process_repository", "ingest">>
            /\ \/ \E content \in ContentPool :
                     /\ content_result' =
                           {[original_size |-> content.chars,
                             original_bytes |-> content.bytes,
                             filtered_size |-> filter_content_by_size(content, max_total_size),
                             filtered_bytes |-> filtered_bytes(content, max_total_size)]}
                     /\ reported' = reported \cup {"Processing Results"}
               \/ /\ content_result' = {}
                  /\ reported' = reported \cup {"Error processing repository"}
    /\ Goto("branch")
    /\ UNCHANGED <<args, scoring, token_info, temp_file,
                   choice, mods_available, glow_available, clean_repository,
                   clean_question, results, repo_info, validation,
                   estimated_cost, ai_response>>

\* main.py 158-197: token estimate and cost confirmation
CostGate ==
    /\ pc = "branch"
    /\ HasContent(content_result, dry_run)
    /\ \E result \in content_result :
          LET estimate == estimate_token_cost(result.filtered_size, Len(clean_question))
          IN  /\ token_info' = {estimate}
              /\ estimated_cost' = {estimate.estimated_cost}
              /\ IF NeedsCostConfirmation(estimate.estimated_cost, force)
                 THEN /\ trace' = trace \o <<"estimate", "cost_prompt">>
                      /\ \E answer \in ConfirmAnswers :
                            /\ reported' = reported \cup {"Token Estimation", "Cost Confirmation Required"}
                                  \cup AnswerMessages(answer, {"Request cancelled by user"}, {"User confirmed"})
                            /\ IF answer = "yes" THEN Goto("generate")
                               ELSE Declined(answer, "cost_declined")
                 ELSE /\ trace' = trace \o <<"estimate">>
                      /\ reported' = reported \cup {"Token Estimation"}
                      /\ Goto("generate")
    /\ UNCHANGED <<args, scoring, include_patterns, temp_file,
                   choice, keywords, mods_available, glow_available, clean_repository,
                   clean_question, results, repo_info, validation,
                   content_result, ai_response>>

\* main.py 216-231: the dry-run summary, then cli() returns
DryRunComplete ==
    /\ pc = "branch"
    /\ ~HasContent(content_result, dry_run)
    /\ dry_run
    /\ reported' = reported \cup {"Dry Run Complete"}
    /\ Exit(0, "return")
    /\ UNCHANGED <<args, scoring, include_patterns, token_info, temp_file,
                   choice, keywords, mods_available, glow_available, clean_repository,
                   clean_question, results, repo_info, validation,
                   content_result, estimated_cost, ai_response, trace>>

\* main.py 158, 216, 230: no content and no dry run: neither branch is
\* taken and cli() returns
ReturnWithoutContent ==
    /\ pc = "branch"
    /\ ~HasContent(content_result, dry_run)
    /\ ~dry_run
    /\ Exit(0, "return")
    /\ UNCHANGED <<args, scoring, include_patterns, token_info, temp_file,
                   choice, keywords, mods_available, glow_available, clean_repository,
                   clean_question, results, repo_info, validation,
                   content_result, estimated_cost, ai_response, trace, reported>>

\* main.py 200 and AIProcessor.process_repository_question 309-321, 355-357
\* with process_with_mods: one mods subprocess, no retry; without a
\* response cli() exits at main.py 212-214
Generate ==
    /\ pc = "generate"
    /\ IF dry_run
       THEN /\ ai_response' = {"mock"}
            /\ trace' = trace
            /\ reported' = reported
       ELSE IF ~mods_available
       THEN /\ ai_response' = {}
            /\ trace' = trace
            /\ reported' = reported \cup {"Missing mods"}
       ELSE IF ~api_key
       THEN /\ ai_response' = {}
            /\ trace' = trace
            /\ reported' = reported \cup {"Missing OpenAI API Key"}
       ELSE /\ trace' = trace \o <<"mods">>
            /\ \E outcome \in ModsOutcomes :
                  /\ ai_response' = mods_response(outcome)
                  /\ reported' = IF outcome = "ok" THEN reported
                                 ELSE reported \cup {"mods failed: " \o outcome}
    /\ IF ai_response' # {}
       THEN Goto("render")
       ELSE Exit(1, "ai_failed")
    /\ UNCHANGED <<args, scoring, include_patterns, token_info, temp_file,
                   choice, keywords, mods_available, glow_available, clean_repository,
                   clean_question, results, repo_info, validation,
                   content_result, estimated_cost>>

\* slip: without glow the renderer fails instead of printing the Markdown
Render_NoFallback ==
    /\ pc = "render"
    /\ \E success \in BOOLEAN :
          /\ IF dry_run
             THEN /\ success
                  /\ trace' = trace
                  /\ temp_file' = temp_file
                  /\ reported' = reported \cup {"Task Complete"}
             ELSE IF ~glow_available
             THEN /\ ~success
                  /\ trace' = trace
                  /\ temp_file' = temp_file
                  /\ reported' = reported \cup {"Failed to render explanation"}
             ELSE \E written \in TempFileOutcomes :
                     IF written # "written"
                     THEN /\ ~success
                          /\ trace' = trace
                          /\ temp_file' = IF written = "write_failed" THEN "exists" ELSE temp_file
                          /\ reported' = reported \cup {"Error rendering with glow",
                                                        "Failed to render explanation"}
                     ELSE /\ trace' = trace \o <<"glow">>
                          /\ temp_file' = "removed"
                          /\ \E outcome \in GlowOutcomes :
                                /\ success = glow_success(outcome)
                                /\ reported' = IF success
                                               THEN reported \cup {"Task Complete"}
                                               ELSE reported \cup {"Failed to render explanation"}
          /\ IF success THEN Exit(0, "return") ELSE Exit(1, "ai_failed")
    /\ UNCHANGED <<args, scoring, include_patterns, token_info,
                   choice, keywords, mods_available, glow_available, clean_repository,
                   clean_question, results, repo_info, validation,
                   content_result, estimated_cost, ai_response>>

\* slip: the temporary file is unlinked after a normal return of the
\* subprocess only, not in a finally block
Render_UnlinkOnReturnOnly ==
    /\ pc = "render"
    /\ \E success \in BOOLEAN :
          /\ IF dry_run
             THEN /\ success
                  /\ trace' = trace
                  /\ temp_file' = temp_file
                  /\ reported' = reported \cup {"Task Complete"}
             ELSE IF ~glow_available
             THEN /\ success
                  /\ trace' = trace
                  /\ temp_file' = temp_file
                  /\ reported' = reported \cup {"Fallback Display", "Task Complete"}
             ELSE \E written \in TempFileOutcomes :
                     IF written # "written"
                     THEN /\ ~success
                          /\ trace' = trace
                          /\ temp_file' = IF written = "write_failed" THEN "exists" ELSE temp_file
                          /\ reported' = reported \cup {"Error rendering with glow",
                                                        "Failed to render explanation"}
                     ELSE /\ trace' = trace \o <<"glow">>
                          /\ \E outcome \in GlowOutcomes :
                                /\ temp_file' = IF outcome \in {"ok", "nonzero"}
                                                THEN "removed" ELSE "exists"
                                /\ success = glow_success(outcome)
                                /\ reported' = IF success
                                               THEN reported \cup {"Task Complete"}
                                               ELSE reported \cup {"Failed to render explanation"}
          /\ IF success THEN Exit(0, "return") ELSE Exit(1, "ai_failed")
    /\ UNCHANGED <<args, scoring, include_patterns, token_info,
                   choice, keywords, mods_available, glow_available, clean_repository,
                   clean_question, results, repo_info, validation,
                   content_result, estimated_cost, ai_response>>

\* AIProcessor.render_with_glow, process_repository_question 329-342 and
\* main.py 204-214: False from the renderer makes cli() exit at 214.  The
\* temporary file is created and written at 263-265, inside the outer try
\* but before the inner one; once it is written glow is spawned and the
\* finally block unlinks the file on every outcome of the subprocess (an
\* OSError of unlink, such as the file being gone already, is swallowed)
Render ==
    /\ pc = "render"
    /\ \E success \in BOOLEAN :
          /\ IF dry_run
             THEN /\ success
                  /\ trace' = trace
                  /\ temp_file' = temp_file
                  /\ reported' = reported \cup {"Task Complete"}
             ELSE IF ~glow_available
             THEN /\ success
                  /\ trace' = trace
                  /\ temp_file' = temp_file
                  /\ reported' = reported \cup {"Fallback Display", "Task Complete"}
             ELSE \E written \in TempFileOutcomes :
                     IF written # "written"
                     THEN /\ ~success
                          /\ trace' = trace
                          /\ temp_file' = IF written = "write_failed" THEN "exists" ELSE temp_file
                          /\ reported' = reported \cup {"Error rendering with glow",
                                                        "Failed to render explanation"}
                     ELSE /\ trace' = trace \o <<"glow">>
                          /\ temp_file' = "removed"
                          /\ \E outcome \in GlowOutcomes :
                                /\ success = glow_success(outcome)
                                /\ reported' = IF success
                                               THEN reported \cup {"Task Complete"}
                                               ELSE reported \cup {"Failed to render explanation"}
          /\ IF success THEN Exit(0, "return") ELSE Exit(1, "ai_failed")
    /\ UNCHANGED <<args, scoring, include_patterns, token_info,
                   choice, keywords, mods_available, glow_available, clean_repository,
                   clean_question, results, repo_info, validation,
                   content_result, estimated_cost, ai_response>>

Next ==
    \/ CheckCredential
    \/ InitComponents
    \/ Sanitize
    \/ ParseRepositoryInput
    \/ CheckRateLimits
    \/ GetRepositoryInfo
    \/ SearchRepositories
    \/ SelectRepositoryInteractive
    \/ Validate
    \/ SizeGate
    \/ ProcessRepository
    \/ CostGate
    \/ DryRunComplete
    \/ ReturnWithoutContent
    \/ Generate
    \/ Render

Spec == Init /\ [][Next]_vars

(***************************************************************************)
(* Vocabulary of the properties                                            *)
(***************************************************************************)
InTrace(e) == \E i \in 1..Len(trace) : trace[i] = e

Count(e) == Cardinality({i \in 1..Len(trace) : trace[i] = e})

\* every occurrence of `later` in the trace comes after one of `earlier`
Precedes(earlier, later) ==
    \A j \in 1..Len(trace) :
        trace[j] = later => \E i \in 1..(j - 1) : trace[i] = earlier

Exited == pc = "exited"

\* the extraction collaborator, the generation tool, the rendering tool
ToolEvents == {"mods_version", "glow_version", "mods", "glow"}

\* the steps that follow the size gate
LaterSteps == {"process_repository", "ingest", "estimate", "cost_prompt", "mods", "glow"}

\* the messages of a failed generation step
GenerationFailures ==
    {"Missing mods", "Missing OpenAI API Key", "mods failed: empty",
     "mods failed: nonzero", "mods failed: timeout", "mods failed: exception"}

\* the three final states of the pipeline's state machine: Done is the
\* return of cli() after the rendering or after the dry-run summary,
\* CancelledByUser an exit with status 0 at a prompt, Failed an exit with a
\* non-zero status
Done ==
    /\ Exited /\ exit_at = "return" /\ exit_code = {0}
    /\ reported \cap {"Task Complete", "Dry Run Complete"} # {}

CancelledByUser ==
    /\ Exited /\ exit_code = {0}
    /\ exit_at \in {"size_declined", "cost_declined", "interrupt"}

Failed == Exited /\ exit_code = {1}

(***************************************************************************)
(* C1..C10: the pipeline                                                   *)
(***************************************************************************)
\* C1: in a run without --dry-run, once the extraction has failed (ingest
\* raised, process_repository reported it and returned None) the run ends
\* with exit status 1, never 0.
C1_ExtractionFailureExitsNonZero ==
    (Exited /\ ~dry_run /\ "Error processing repository" \in reported)
        => exit_code = {1}

\* C2: a run in which the user cancelled or interrupted a prompt (the
\* repository selection, the size confirmation, the cost confirmation) ends
\* with exit status 0, never 1.
C2_PromptCancelExitsZero ==
    (Exited /\ reported \cap {"Selection cancelled", "Processing cancelled by user",
                              "Request cancelled by user",
                              "Operation cancelled by user"} # {})
        => exit_code = {0}

\* C3: when the generation returned a response and the available rendering
\* tool then failed, the run still ends with exit status 0.
C3_RenderFailureKeepsExitZero ==
    (Exited /\ ai_response # {} /\ "Failed to render explanation" \in reported)
        => exit_code = {0}

\* C4: in a dry run neither tool is invoked (not even for its version),
\* the extraction collaborator is not called, the only external calls are
\* those of the resolution, and a run that got past validation and the size
\* gate ends at the dry-run summary with exit status 0, with or without the
\* credential.
C4_DryRunInvokesNothing ==
    dry_run =>
        /\ \A i \in 1..Len(trace) : trace[i] \notin ToolEvents \cup {"ingest", "estimate", "cost_prompt"}
        /\ (Exited /\ InTrace("process_repository")) =>
               /\ exit_code = {0}
               /\ exit_at = "return"
               /\ "Dry Run Complete" \in reported
               /\ validation.is_valid

C4_Witness ==
    /\ dry_run /\ ~api_key /\ Exited
    /\ Classify(clean_repository) = "owner_repo"
    /\ InTrace("get_repository_info")
    /\ "Dry Run Complete" \in reported

\* C5: once the size gate has been passed or left, the size prompt was shown
\* exactly when the descriptor reports more than 100 MB and force is not
\* set; it was shown before any later step; and a run the user declined
\* there ended with status 0 without extraction, estimate, generation or
\* rendering.
C5_SizeGate ==
    /\ (InTrace("validate") /\ validation.is_valid /\ pc # "size_gate") =>
           (InTrace("size_prompt") <=>
               (~force /\ \E kb \in repo_info.size_kb : kb > 100 * 1024))
    /\ \A e \in LaterSteps : InTrace(e) /\ InTrace("size_prompt") => Precedes("size_prompt", e)
    /\ Count("size_prompt") <= 1
    /\ "Processing cancelled by user" \in reported =>
           /\ Exited /\ exit_code = {0}
           /\ \A e \in LaterSteps : ~InTrace(e)

C5_Witness ==
    /\ "Processing cancelled by user" \in reported
    /\ repo_info.size_kb = {256000}
    /\ ~force

\* C6: without --dry-run the generation step is reached, and the generation
\* tool invoked, only if the estimate is at most 0.05 USD, or force is set,
\* or the user confirmed at the cost prompt; and a run the user declined at
\* the cost prompt ended with status 0 without either tool being invoked.
C6_CostGate ==
    /\ (~dry_run /\ (pc \in {"generate", "render"} \/ InTrace("mods"))) =>
           \/ \E cost \in estimated_cost : cost <= 50000
           \/ force
           \/ "User confirmed" \in reported
    /\ "User confirmed" \in reported => Precedes("cost_prompt", "mods")
    /\ "Request cancelled by user" \in reported =>
           /\ Exited /\ exit_code = {0}
           /\ ~InTrace("mods") /\ ~InTrace("glow")
           /\ ~force /\ \E cost \in estimated_cost : cost > 50000

C6_Witness ==
    /\ InTrace("mods") /\ "User confirmed" \in reported /\ ~force
    /\ \E cost \in estimated_cost : cost > 50000

\* the steps of C7 in their order
StepOrder == <<"sanitize", "parse", "validate", "process_repository", "ingest",
               "estimate", "mods", "glow">>

\* C7: the steps happen in the order sanitize, resolve, validate, size
\* gate, extract, cost gate, generate, render, each at most once; extraction
\* only after a successful validation, generation only after a successful
\* extraction and a passed cost gate, rendering only after a response; and a
\* run that has ended is in exactly one of Done, CancelledByUser, Failed.
C7_OrderAndFinalState ==
    /\ \A e \in Range(trace) : Count(e) <= 1 \/ e = "rate_limit"
    /\ \A a, b \in 1..Len(StepOrder) :
           (a < b /\ InTrace(StepOrder[b])) => Precedes(StepOrder[a], StepOrder[b])
    /\ InTrace("size_prompt") => Precedes("validate", "size_prompt")
    /\ InTrace("ingest") =>
           /\ validation.is_valid
           /\ InTrace("size_prompt") => Precedes("size_prompt", "ingest")
    /\ InTrace("mods") => content_result # {} /\ Precedes("estimate", "mods")
    /\ InTrace("glow") => ai_response # {}
    /\ Exited =>
           /\ Done \/ CancelledByUser \/ Failed
           /\ ~(Done /\ CancelledByUser) /\ ~(Done /\ Failed)
           /\ ~(CancelledByUser /\ Failed)

\* C8: without the credential and without --dry-run the run ends with
\* status 1 at the credential check, before any step or external call; in
\* a dry run the absence of the credential causes no failure.
C8_CredentialCheck ==
    /\ (~dry_run /\ ~api_key /\ pc # "check_key") =>
           /\ Exited /\ exit_code = {1} /\ exit_at = "no_key"
           /\ trace = <<>>
           /\ clean_repository = <<>> /\ clean_question = <<>>
           /\ repo_info = NoRepositoryInfo
    /\ dry_run =>
           /\ exit_at # "no_key"
           /\ reported \cap {"Configuration Error", "Missing OpenAI API Key"} = {}

C8_Witness == Exited /\ exit_at = "no_key" /\ ~dry_run /\ ~api_key

\* C9: without --dry-run, once the generation step has failed (tool
\* unavailable, non-zero exit, timeout, exception, blank response) the run
\* has ended with status 1 and the rendering tool was never invoked.
C9_GenerationFailure ==
    (~dry_run /\ reported \cap GenerationFailures # {}) =>
        /\ Exited /\ exit_code = {1}
        /\ ai_response = {}
        /\ ~InTrace("glow")
        /\ reported \cap {"Fallback Display", "Task Complete"} = {}

C9_Witness ==
    /\ Exited /\ "mods failed: empty" \in reported /\ glow_available

\* C10: whatever the resolution path, no size prompt, extraction, estimate,
\* generation or rendering happens before a successful validation of the
\* descriptor; a failed validation ends the run with status 1 as its last
\* step, with a message naming the offending field and its value.
C10_ValidationFirst ==
    /\ (pc \in {"size_gate", "extract", "branch", "generate", "render"}
          \/ \E e \in LaterSteps \cup {"size_prompt"} : InTrace(e)) =>
           /\ validation.is_valid
           /\ \A e \in LaterSteps \cup {"size_prompt"} : Precedes("validate", e)
    /\ (InTrace("validate") /\ ~validation.is_valid) =>
           /\ Exited /\ exit_code = {1} /\ exit_at = "invalid"
           /\ trace[Len(trace)] = "validate"
           /\ "Invalid Repository" \in reported
           /\ \/ validation.field = "owner" /\ validation.value = repo_info.owner
              \/ validation.field = "name" /\ validation.value = repo_info.name

C10_Witness ==
    /\ Exited /\ exit_at = "invalid"
    /\ repo_info.source_type = "search_term"
    /\ validation.field = "owner"

(***************************************************************************)
(* Sanitization and classification of arbitrary strings                    *)
(***************************************************************************)
\* the longest REPOSITORY argument enumerated (after an optional URL prefix)
MaxStrLen == 4

\* a name character, the separator, whitespace, a denylisted character and
\* the start of a query string
StrAlphabet == {"a", "/", " ", "$", "?"}

\* all strings over StrAlphabet of length 0..MaxStrLen
ShortStrings == UNION {[1..n -> StrAlphabet] : n \in 0..MaxStrLen}

\* REPOSITORY arguments: every short string, alone and after a URL prefix,
\* and strings with the other characters of interest
StringArgs ==
    {prefix \o str : prefix \in {<<>>, HttpsPrefix, HttpPrefix}, str \in ShortStrings}
    \cup { <<Backquote, "$", ";", "|", "&", ">", "<", "a", "/", "a">>,
           <<"h", "t", "t", "p", "s", ":", "/", "/", "g", "i", "t", "h", "u", "b", ".", "c", "o", "m", "/", "a", "/", "a", "a", "?", "a">>,
           <<"h", "t", "t", "p", "s", ":", "/", "/", "g", "i", "t", "h", "u", "b", ".", "c", "o", "m", "/", "a", "a", "/", "a", ".", "a", "#", "a">>,
           <<"h", "t", "t", "p", "s", ":", "/", "/", "g", "i", "t", "h", "u", "b", ".", "c", "o", "m", "/", "a", "/", "a", "a", "/", "a">>,
           <<"h", "t", "t", "p", ":", "/", "/", "g", "i", "t", "h", "u", "b", ".", "c", "o", "m", "/", "a", "-", "a", "/", "a", "_", "a", "/">>,
           <<"<", " ", "a", "/", "a", "a", " ", ">">> }

\* a QUESTION argument with every denylisted character
StringQuestion == <<"h", "o", "w", " ", "d", "o", "e", "s", " ", Backquote, "t", "h", "e", Backquote, " ", "$", "a", "p", "i", " ", "|", " ", "w", "o", "r", "k", ";", " ", "&", " ", "<", "w", "h", "y", ">">>

InitStrings ==
    /\ repository \in StringArgs
    /\ question = StringQuestion
    /\ dry_run = TRUE
    /\ force = FALSE
    /\ no_api \in BOOLEAN
    /\ max_total_size = 50
    /\ api_key = FALSE
    /\ model = default_model
    /\ Fresh

\* cli() up to the return of the classification
NextStrings ==
    \/ CheckCredential
    \/ InitComponents
    \/ Sanitize
    \/ ParseRepositoryInput

StringSpec == InitStrings /\ [][NextStrings]_vars

DangerousSet == {Backquote, "$", ";", "|", "&", ">", "<"}

\* C11: sanitization is idempotent: sanitizing the sanitized REPOSITORY or
\* QUESTION again gives the same string.
C11_SanitizeIdempotent ==
    InTrace("sanitize") =>
        /\ sanitize_input(clean_repository) = clean_repository
        /\ sanitize_input(clean_question) = clean_question

\* C12: the sanitized strings are the stripped arguments without the seven
\* denylisted characters, so none of the seven is left; and the
\* classification happens after the sanitization, on the sanitized string.
C12_NoDangerousCharLeft ==
    /\ InTrace("sanitize") =>
           /\ Range(clean_repository) \cap DangerousSet = {}
           /\ Range(clean_question) \cap DangerousSet = {}
           /\ clean_repository = SelectSeq(Strip(repository), LAMBDA c : c \notin DangerousSet)
           /\ clean_question = SelectSeq(Strip(question), LAMBDA c : c \notin DangerousSet)
    /\ InTrace("parse") =>
           /\ Precedes("sanitize", "parse")
           /\ repo_info.source_type = "url" => repo_info.url = Strip(clean_repository)
           /\ repo_info.source_type = "owner_repo" =>
                  full_name(repo_info) = Strip(clean_repository)
    /\ ~InTrace("sanitize") => repo_info = NoRepositoryInfo

C12_Witness ==
    /\ InTrace("parse")
    /\ Range(repository) \cap DangerousSet = DangerousSet
    /\ repo_info.source_type = "owner_repo"

\* a non-empty string of [a-zA-Z0-9._-]
IsName(x) == Len(x) >= 1 /\ \A i \in 1..Len(x) : x[i] \in NameChars

\* the path component of the URL that was classified, without its first /
ClassifiedPath ==
    UrlPath(Strip(clean_repository),
            SubSeq(Strip(clean_repository), 1, UrlPrefixLen(Strip(clean_repository))))

\* C13 as stated: for every string classified as a URL, the owner and name
\* are those the owner/name pattern gives on the URL's path component, also
\* with a trailing slash or further path segments.
C13_UrlAgreesWithSlashPattern ==
    (InTrace("parse") /\ repo_info.source_type = "url") =>
        /\ OWNER_REPO_PATTERN(ClassifiedPath).ok
        /\ OWNER_REPO_PATTERN(ClassifiedPath).owner = repo_info.owner
        /\ OWNER_REPO_PATTERN(ClassifiedPath).repo = repo_info.name

\* C13 amended: for every string classified as a URL on whose path
\* component the owner/name pattern matches, the owner and name are the
\* groups of that match; where it does not match, the path goes on after
\* owner/name with a character outside the class, and owner and name are
\* the first segment and the run of name characters that starts the second.
C13_UrlAgreesWhenSlashPatternMatches ==
    (InTrace("parse") /\ repo_info.source_type = "url") =>
        IF OWNER_REPO_PATTERN(ClassifiedPath).ok
        THEN /\ OWNER_REPO_PATTERN(ClassifiedPath).owner = repo_info.owner
             /\ OWNER_REPO_PATTERN(ClassifiedPath).repo = repo_info.name
        ELSE LET taken == repo_info.owner \o <<"/">> \o repo_info.name
             IN  /\ IsName(repo_info.owner) /\ IsName(repo_info.name)
                 /\ StartsWith(ClassifiedPath, taken)
                 /\ Len(ClassifiedPath) > Len(taken)
                 /\ ClassifiedPath[Len(taken) + 1] \notin NameChars

C13_Witness ==
    /\ InTrace("parse") /\ repo_info.source_type = "url"
    /\ OWNER_REPO_PATTERN(ClassifiedPath).ok
    /\ Len(repo_info.name) >= 2
    /\ Len(ClassifiedPath) + UrlPrefixLen(Strip(clean_repository)) < Len(Strip(clean_repository))

\* the ways s has the URL shape: a prefix, then owner = s[p+1..i], a /,
\* name = s[i+2..j], and no name character after it
UrlSplits(s) ==
    {split \in {HttpPrefix, HttpsPrefix} \X (1..Len(s)) \X (1..Len(s)) :
        /\ StartsWith(s, split[1])
        /\ Len(split[1]) < split[2] + 1 /\ split[2] + 2 <= split[3]
        /\ IsName(SubSeq(s, Len(split[1]) + 1, split[2]))
        /\ s[split[2] + 1] = "/"
        /\ IsName(SubSeq(s, split[2] + 2, split[3]))
        /\ (split[3] = Len(s) \/ s[split[3] + 1] \notin NameChars)}

\* the ways the whole of s is owner/name: the position of the /
OwnerRepoSplits(s) ==
    {i \in 1..Len(s) : /\ s[i] = "/"
                       /\ IsName(SubSeq(s, 1, i - 1))
                       /\ IsName(SubSeq(s, i + 1, Len(s)))}

\* C14: once classified, the input has exactly one source kind: url if it
\* has the URL shape, else owner_repo if it is owner/name as a whole, else
\* it is a search term; no string has both shapes; for url and owner_repo
\* the owner and name are the matched segments.
C14_ClassificationByFirstMatch ==
    InTrace("parse") =>
        LET s == Strip(clean_repository)
        IN  /\ ~(UrlSplits(s) # {} /\ OwnerRepoSplits(s) # {})
            /\ UrlSplits(s) # {} =>
                   /\ repo_info.source_type = "url"
                   /\ \A split \in UrlSplits(s) :
                          /\ repo_info.owner = SubSeq(s, Len(split[1]) + 1, split[2])
                          /\ repo_info.name = SubSeq(s, split[2] + 2, split[3])
            /\ OwnerRepoSplits(s) # {} =>
                   /\ repo_info.source_type = "owner_repo"
                   /\ \A i \in OwnerRepoSplits(s) :
                          /\ repo_info.owner = SubSeq(s, 1, i - 1)
                          /\ repo_info.name = SubSeq(s, i + 1, Len(s))
            /\ (UrlSplits(s) = {} /\ OwnerRepoSplits(s) = {}) =>
                   repo_info.source_type \in {"none", "search_term"}

C14_Witness ==
    /\ InTrace("parse")
    /\ repo_info.source_type = "url"
    /\ Len(Strip(clean_repository)) > UrlPrefixLen(Strip(clean_repository)) + 3

(***************************************************************************)
(* Validation of arbitrary descriptors                                     *)
(***************************************************************************)
\* the longest owner or name enumerated for a search result
MaxNameLen == 2

\* a name character, another name character, a newline and a space
NameAlphabet == {"a", "-", "\n", " "}

\* owner.login and name of a search item: every string over NameAlphabet of
\* length 0..MaxNameLen, and the literals validation looks for
NameStrings ==
    UNION {[1..n -> NameAlphabet] : n \in 0..MaxNameLen}
    \cup { <<"n", "u", "l", "l">>, <<"N", "U", "L", "L">>, <<"N", "u", "l", "l", "\n">>, <<"u", "n", "d", "e", "f", "i", "n", "e", "d">>, <<"U", "n", "d", "e", "f", "i", "n", "e", "d">>, <<"n", "u", "l">>, <<"a", ".", "b", "_">> }

\* GitHubAPI.search_repositories 58-98 returning one item whose owner and
\* name are any of NameStrings
SearchRepositoriesNamed ==
    /\ pc = "search"
    /\ trace' = trace \o <<"search">>
    /\ \E owner \in NameStrings, name \in NameStrings :
          results' = << [owner |-> owner, name |-> name, description |-> {},
                         stars |-> 3, size_kb |-> 10, language |-> {},
                         url |-> HttpsPrefix \o owner \o <<"/">> \o name] >>
    /\ reported' = reported
    /\ Goto("select")
    /\ UNCHANGED <<args, scoring, include_patterns, token_info, temp_file,
                   choice, keywords, mods_available, glow_available, clean_repository,
                   clean_question, repo_info, validation, content_result,
                   estimated_cost, ai_response>>

InitValidate ==
    /\ repository = <<"m", "y", " ", "p", "r", "o", "j", "e", "c", "t">>
    /\ question \in QuestionArgs
    /\ dry_run = TRUE
    /\ force = FALSE
    /\ no_api = FALSE
    /\ max_total_size = 50
    /\ api_key = FALSE
    /\ model = default_model
    /\ Fresh

\* cli() up to the validation of a descriptor that a search returned
NextValidate ==
    \/ CheckCredential
    \/ InitComponents
    \/ Sanitize
    \/ ParseRepositoryInput
    \/ CheckRateLimits
    \/ SearchRepositoriesNamed
    \/ SelectRepositoryInteractive
    \/ Validate

ValidateSpec == InitValidate /\ [][NextValidate]_vars

\* a field the claim calls acceptable: non-empty, every character in
\* [A-Za-z0-9._-], not null or undefined in any letter case
AcceptableField(x) ==
    /\ IsName(x)
    /\ Lower(x) \notin {StrNull, StrUndefined}

\* C15: validation returns valid exactly for the descriptors whose owner
\* and name are both non-empty, made of [A-Za-z0-9._-] only (so without a
\* trailing newline) and not null or undefined in any letter case.
C15_ValidateRejectsExactly ==
    InTrace("validate") =>
        (validation.is_valid <=>
            (AcceptableField(repo_info.owner) /\ AcceptableField(repo_info.name)))

(***************************************************************************)
(* Resolution through the GitHub API                                       *)
(***************************************************************************)
\* the search call has returned and the selection, if any, is over
SearchResolved == InTrace("search") /\ pc # "select"

\* C16: a search without results ends the run with the no-match failure
\* and without a descriptor; a single result becomes the descriptor without
\* a prompt; several results are followed by exactly one prompt, and the
\* descriptor is the result at the answered 1-based index, of kind
\* search_term; no run prompts twice.
C16_SearchSelection ==
    /\ Count("select_prompt") <= 1
    /\ InTrace("select_prompt") => Len(results) > 1
    /\ (SearchResolved /\ Len(results) = 0) =>
           /\ exit_code = {1}
           /\ "No repositories found" \in reported
           /\ repo_info = NoRepositoryInfo
    /\ (SearchResolved /\ Len(results) = 1) =>
           /\ ~InTrace("select_prompt")
           /\ choice = {}
           /\ repo_info = FromSearchResult(results[1])
    /\ (SearchResolved /\ Len(results) > 1) =>
           /\ Count("select_prompt") = 1
           /\ \/ /\ choice = {}
                 /\ repo_info = NoRepositoryInfo
                 /\ exit_code = {1}
              \/ \E answer \in 1..Len(results) :
                    /\ choice = {answer}
                    /\ repo_info = FromSearchResult(results[answer])
                    /\ repo_info.source_type = "search_term"

C16_Witness ==
    /\ InTrace("validate")
    /\ Len(results) = 2
    /\ choice = {2}
    /\ repo_info = FromSearchResult(results[2])

\* C17: without the API, every sanitized input that is neither a URL nor
\* owner/name (the empty string included) is resolved to a descriptor of
\* kind search_term: the first matching entry of the static table, or else
\* the owner mock-owner with a name made from the first word of the input.
C17_MockSearchNeverRaises ==
    (no_api /\ InTrace("parse") /\ Classify(clean_repository) = "search_term") =>
        /\ ~Exited
        /\ repo_info.source_type = "search_term"
        /\ \/ \E i \in 1..Len(mock_results) :
                 /\ Contains(Lower(Strip(clean_repository)), mock_results[i].term)
                 /\ repo_info.owner = mock_results[i].owner
                 /\ repo_info.name = mock_results[i].repo
           \/ /\ repo_info.owner = StrMockOwner
              /\ repo_info.name # <<>>

\* the descriptor parse_repository_input builds for a URL or owner/name
\* input before it asks the API
ClassifiedDescriptor ==
    LET repository_input == Strip(clean_repository)
        url_match == GITHUB_URL_PATTERN(repository_input)
        owner_repo_match == OWNER_REPO_PATTERN(repository_input)
    IN  IF url_match.ok
        THEN RepositoryInfo(url_match.owner, url_match.repo, repository_input, "url")
        ELSE RepositoryInfo(owner_repo_match.owner, owner_repo_match.repo,
                            HttpsPrefix \o owner_repo_match.owner \o <<"/">>
                                \o owner_repo_match.repo,
                            "owner_repo")

LookupFailures == {"Repository not found", "Error fetching repository info"}

\* C18: after a metadata lookup that failed with a 404, an HTTP error
\* status or a network error, the run goes on to validation with the
\* descriptor exactly as classified, its four enrichment fields unset;
\* after any lookup, owner, name, url and source kind are as classified.
C18_LookupFailureIsNotFatal ==
    InTrace("get_repository_info") =>
        /\ [repo_info EXCEPT !.description = {}, !.stars = {},
                             !.size_kb = {}, !.language = {}] = ClassifiedDescriptor
        /\ reported \cap LookupFailures # {} =>
               /\ repo_info = ClassifiedDescriptor
               /\ pc = "validate" \/ InTrace("validate")

C18_Witness ==
    /\ "Repository not found" \in reported
    /\ InTrace("ingest")
    /\ repo_info.source_type = "url"
    /\ repo_info.stars = {}

\* C19: every search call and every metadata call comes right after a
\* rate-limit check, and every rate-limit check, whatever it found, is
\* followed by the call it precedes: the run never ends at the check.
C19_RateLimitCheckIsAdvisory ==
    /\ \A i \in 1..Len(trace) :
          trace[i] \in {"search", "get_repository_info"} =>
              i > 1 /\ trace[i - 1] = "rate_limit"
    /\ \A i \in 1..Len(trace) :
          trace[i] = "rate_limit" =>
              IF i < Len(trace)
              THEN trace[i + 1] \in {"search", "get_repository_info"}
              ELSE pc \in {"search", "get_info"} /\ ~Exited
    /\ "Rate Limit Warning" \in reported => InTrace("rate_limit")

C19_Witness ==
    /\ "Rate Limit Warning" \in reported
    /\ InTrace("search")
    /\ InTrace("validate")

(***************************************************************************)
(* Keyword extraction on arbitrary questions                               *)
(***************************************************************************)
\* the longest enumerated question
MaxQuestionLen == 4

\* letters of a technical term (one in upper case), a space and a hyphen
QuestionAlphabet == {"A", "p", "i", " ", "-"}

ExampleQuestion == <<"H", "o", "w", " ", "d", "o", " ", "I", " ", "s", "e", "t", " ", "u", "p", " ", "a", "u", "t", "h", "e", "n", "t", "i", "c", "a", "t", "i", "o", "n", " ", "w", "i", "t", "h", " ", "t", "h", "e", " ", "R", "E", "S", "T", " ", "A", "P", "I", "?">>

\* questions: every string over QuestionAlphabet of length
\* 0..MaxQuestionLen, the example of the specification, and questions with
\* stop words, repeated words and words inside words
KeywordQuestions ==
    UNION {[1..n -> QuestionAlphabet] : n \in 0..MaxQuestionLen}
    \cup { ExampleQuestion,
           <<"T", "h", "e", " ", "t", "h", "e", " ", "A", "p", "i", " ", "a", "p", "i">>,
           <<"h", "o", "w", " ", "c", "a", "n", " ", "t", "h", "i", "s", " ", "t", "e", "s", "t", " ", "t", "h", "e", " ", "l", "a", "t", "e", "s", "t", " ", "t", "e", "s", "t", "s">>,
           <<"d", "o", " ", "i", "t", " ", "i", "n", " ", "a", "n", " ", "a", "p", "i", "a", "r", "y">>,
           <<"s", "e", "t", "_", "u", "p", " ", "D", "o", "c", "k", "e", "r", "-", "c", "o", "m", "p", "o", "s", "e">> }

InitKeywords ==
    /\ question \in KeywordQuestions
    /\ repository = <<>>
    /\ dry_run = TRUE
    /\ force = FALSE
    /\ no_api = TRUE
    /\ max_total_size = 50
    /\ api_key = FALSE
    /\ model = default_model
    /\ Fresh

\* ContentProcessor._extract_question_keywords(question), applied to the
\* question as given
ExtractQuestionKeywords ==
    /\ pc = "check_key"
    /\ \E returned \in extract_question_keywords(question) : keywords' = {returned}
    /\ pc' = "extracted"
    /\ UNCHANGED <<args, scoring, include_patterns, token_info, temp_file,
                   choice, mods_available, glow_available, clean_repository,
                   clean_question, results, repo_info, validation, content_result,
                   estimated_cost, ai_response, trace, reported, exit_code, exit_at>>

NextKeywords == ExtractQuestionKeywords

KeywordSpec == InitKeywords /\ [][NextKeywords]_vars

\* the word tokens of s: the maximal runs of word characters
Tokens(s) ==
    {SubSeq(s, ij[1], ij[2]) : ij \in
        {ij \in (1..Len(s)) \X (1..Len(s)) :
            /\ ij[1] <= ij[2]
            /\ \A k \in ij[1]..ij[2] : s[k] \in WordChars
            /\ (ij[1] = 1 \/ s[ij[1] - 1] \notin WordChars)
            /\ (ij[2] = Len(s) \/ s[ij[2] + 1] \notin WordChars)}}

\* t occurs in s as a substring
Occurs(t, s) == \E i \in 0..(Len(s) - Len(t)) : SubSeq(s, i + 1, i + Len(t)) = t

\* what the claim says the keywords of q are
ExpectedKeywords(q) ==
    {t \in Tokens(Lower(q)) : Len(t) > 2 /\ t \notin stop_words}
    \cup {t \in Range(tech_terms) : Occurs(t, Lower(q))}

\* C20: the returned keywords are a list without duplicates whose elements
\* are the word tokens of the lower-cased question that are longer than 2
\* and no stop words, and the technical terms that occur in the lower-cased
\* question; none is a stop word or shorter than 3; for the example
\* question they include authentication, auth, rest and api and none of
\* how, do, with, the.
C20_KeywordExtraction ==
    (pc = "extracted") =>
        \A returned \in keywords :
            /\ Cardinality(Range(returned)) = Len(returned)
            /\ Range(returned) = ExpectedKeywords(question)
            /\ Range(returned) \cap stop_words = {}
            /\ \A word \in Range(returned) : Len(word) > 2
            /\ question = ExampleQuestion =>
                   /\ {<<"a", "u", "t", "h", "e", "n", "t", "i", "c", "a", "t", "i", "o", "n">>, <<"a", "u", "t", "h">>, <<"r", "e", "s", "t">>, <<"a", "p", "i">>} \subseteq Range(returned)
                   /\ {<<"h", "o", "w">>, <<"d", "o">>, <<"w", "i", "t", "h">>, <<"t", "h", "e">>} \cap Range(returned) = {}

C20_Witness ==
    /\ pc = "extracted"
    /\ question = ExampleQuestion
    /\ \E returned \in keywords : Len(returned) = 5

(***************************************************************************)
(* Include patterns for arbitrary questions                                *)
(***************************************************************************)
\* the largest number of words in an enumerated question
MaxPatternWords == 2

\* words with and without trigger terms, in several letter cases; one
\* trigger inside another word; the two-word trigger, also broken by a
\* second space
PatternWords ==
    { <<"A", "P", "I">>, <<"i", "n", "t", "e", "r", "e", "s", "t">>, <<"e", "n", "d", "p", "o", "i", "n", "t", "s">>, <<"T", "u", "t", "o", "r", "i", "a", "l">>, <<"e", "x", "a", "m", "p", "l", "e">>,
      <<"g", "e", "t", "t", "i", "n", "g", " ", "s", "t", "a", "r", "t", "e", "d">>, <<"g", "e", "t", "t", "i", "n", "g", " ", " ", "s", "t", "a", "r", "t", "e", "d">>, <<"c", "o", "n", "f", "i", "g">>, <<"S", "e", "t", "u", "p">>,
      <<"i", "n", "s", "t", "a", "l", "l">>, <<"r", "e", "a", "d", "m", "e">>, <<"h", "o", "w">> }

RECURSIVE JoinWords(_)
\* " ".join(words)
JoinWords(words) ==
    IF Len(words) = 0 THEN <<>>
    ELSE IF Len(words) = 1 THEN words[1]
    ELSE words[1] \o <<" ">> \o JoinWords(Tail(words))

PatternQuestions ==
    {JoinWords(words) : words \in UNION {[1..n -> PatternWords] : n \in 0..MaxPatternWords}}

\* repo_info.language of the descriptor: None or a language name
PatternLanguages == {{}, {"Python"}, {"PYTHON"}, {"JavaScript"}}

InitPatterns ==
    /\ question \in PatternQuestions
    /\ repository = <<>>
    /\ dry_run = FALSE
    /\ force = FALSE
    /\ no_api = TRUE
    /\ max_total_size = 50
    /\ api_key = FALSE
    /\ model = default_model
    /\ Fresh

\* ContentProcessor._generate_include_patterns(question, repo_info) for a
\* descriptor with any of PatternLanguages
GenerateIncludePatterns ==
    /\ pc = "check_key"
    /\ \E lang \in PatternLanguages :
          /\ repo_info' = [repo_info EXCEPT !.language = lang]
          /\ include_patterns' = {generate_include_patterns(question, repo_info')}
    /\ pc' = "generated"
    /\ UNCHANGED <<args, scoring, token_info, temp_file, choice, keywords,
                   mods_available, glow_available, clean_repository,
                   clean_question, results, validation, content_result,
                   estimated_cost, ai_response, trace, reported, exit_code, exit_at>>

NextPatterns == GenerateIncludePatterns

PatternSpec == InitPatterns /\ [][NextPatterns]_vars

\* one of the terms occurs in the lower-cased question
Triggered(terms) == \E term \in terms : Occurs(term, Lower(question))

\* C21: the generated set holds the README/CONTRIBUTING/LICENSE globs;
\* it holds the API globs if the lower-cased question has an API trigger
\* and none of them otherwise, likewise the examples/tutorial globs for a
\* tutorial trigger; it holds the manifest/container globs if the question
\* has a setup trigger; and it includes the set generated for the empty
\* question and the same descriptor.
C21_IncludePatterns ==
    (pc = "generated") =>
        \A returned \in include_patterns :
            /\ core_patterns \subseteq returned
            /\ IF Triggered(api_terms)
               THEN api_patterns \subseteq returned
               ELSE api_patterns \cap returned = {}
            /\ IF Triggered(tutorial_terms)
               THEN tutorial_patterns \subseteq returned
               ELSE tutorial_patterns \cap returned = {}
            /\ Triggered(setup_terms) => setup_patterns \subseteq returned
            /\ generate_include_patterns(<<>>, repo_info) \subseteq returned

C21_Witness ==
    /\ pc = "generated"
    /\ Triggered(api_terms) /\ Triggered(setup_terms) /\ ~Triggered(tutorial_terms)
    /\ IsPython(repo_info)
    /\ \E returned \in include_patterns : "docker-compose.*" \in returned

\* one of the terms occurs in the lower-cased sanitized question
TriggeredInPipeline(terms) == \E term \in terms : Occurs(term, Lower(clean_question))

\* C22: when ingest is called, the include patterns it is given hold the
\* globs of every topic (API, tutorial, setup) whose trigger term occurs in
\* the sanitized question.
C22_FilterPlanFollowsQuestion ==
    InTrace("ingest") =>
        /\ include_patterns # {}
        /\ \A returned \in include_patterns :
              /\ TriggeredInPipeline(api_terms) => api_patterns \subseteq returned
              /\ TriggeredInPipeline(tutorial_terms) => tutorial_patterns \subseteq returned
              /\ TriggeredInPipeline(setup_terms) => setup_patterns \subseteq returned

(***************************************************************************)
(* Importance score of arbitrary paths                                     *)
(***************************************************************************)
\* the longest enumerated keyword list
MaxKeywords == 2

\* keywords: lower case, upper case (never a substring of a lower-cased
\* path), and one that no path holds
ScoreKeywords == {<<"a", "p", "i">>, <<"t", "e", "s", "t">>, <<"m", "a", "i", "n">>, <<"A", "P", "I">>, <<"z", "z", "z">>}

\* lists of up to MaxKeywords keywords, repetitions included
KeywordLists == UNION {[1..n -> ScoreKeywords] : n \in 0..MaxKeywords}

\* file paths: at least one for every rule, and paths that match several
ScorePaths ==
    { <<"R", "E", "A", "D", "M", "E", ".", "m", "d">>, <<"d", "o", "c", "s", "/", "r", "e", "a", "d", "m", "e", ".", "t", "x", "t">>, <<"s", "r", "c", "/", "r", "e", "a", "d", "m", "e", "_", "a", "p", "i", ".", "p", "y">>,
      <<"C", "O", "N", "T", "R", "I", "B", "U", "T", "I", "N", "G", ".", "m", "d">>, <<"L", "I", "C", "E", "N", "S", "E">>, <<"d", "o", "c", "s", "/", "l", "i", "c", "e", "n", "s", "e", ".", "t", "x", "t">>, <<"l", "i", "c", "e", "n", "s", "e", ".", "p", "y">>,
      <<"d", "o", "c", "s", "/", "g", "u", "i", "d", "e", ".", "m", "d">>, <<"d", "o", "c", "/", "a", "p", "i", "/", "m", "a", "i", "n", ".", "p", "y">>, <<"d", "o", "c", "u", "m", "e", "n", "t", "a", "t", "i", "o", "n", ".", "t", "x", "t">>, <<"a", "p", "i", "d", "o", "c", ".", "r", "s", "t">>,
      <<"s", "r", "c", "/", "m", "a", "i", "n", ".", "p", "y">>, <<"t", "e", "s", "t", "s", "/", "m", "a", "i", "n", ".", "p", "y">>, <<"S", "e", "r", "v", "e", "r", ".", "P", "Y">>,
      <<"p", "a", "c", "k", "a", "g", "e", ".", "j", "s", "o", "n">>, <<"a", "p", "i", "/", "s", "e", "t", "u", "p", ".", "p", "y">>,
      <<"s", "r", "c", "/", "u", "t", "i", "l", ".", "p", "y">>, <<"s", "r", "c", "/", "c", "o", "n", "t", "e", "s", "t", ".", "t", "s">>, <<"s", "r", "c", "/", "a", "p", "i", "_", "c", "l", "i", "e", "n", "t", ".", "g", "o">>,
      <<"t", "e", "s", "t", "s", "/", "t", "e", "s", "t", "_", "f", "o", "o", ".", "p", "y">>, <<"t", "e", "s", "t", "s", "/", "c", "o", "n", "f", "i", "g", ".", "j", "s", "o", "n">>, <<"c", "o", "n", "f", "i", "g", ".", "y", "a", "m", "l">>,
      <<"D", "o", "c", "k", "e", "r", "f", "i", "l", "e">>, <<"t", "e", "s", "t", "/", "M", "a", "k", "e", "f", "i", "l", "e">>, <<".", "e", "n", "v", ".", "e", "x", "a", "m", "p", "l", "e">>,
      <<"s", "p", "e", "c", "/", "f", "o", "o", "_", "s", "p", "e", "c", ".", "r", "b">>, <<"e", "x", "a", "m", "p", "l", "e", "s", "/", "d", "e", "m", "o", ".", "t", "x", "t">>, <<"e", "x", "a", "m", "p", "l", "e", "/", "t", "e", "s", "t", ".", "s", "h">>, <<"d", "e", "m", "o", "/">>,
      <<"i", "m", "a", "g", "e", ".", "p", "n", "g">>, <<>> }

InitScore ==
    /\ repository = <<>>
    /\ question = <<>>
    /\ dry_run = FALSE
    /\ force = FALSE
    /\ no_api = TRUE
    /\ max_total_size = 50
    /\ api_key = FALSE
    /\ model = default_model
    /\ Fresh

\* ContentProcessor._calculate_file_importance on any of ScorePaths and
\* KeywordLists
CalculateFileImportance ==
    /\ pc = "check_key"
    /\ \E path \in ScorePaths, question_keywords \in KeywordLists :
          /\ filepath' = path
          /\ keywords' = {question_keywords}
          /\ score' = {calculate_file_importance(path, question_keywords)}
    /\ pc' = "scored"
    /\ UNCHANGED <<args, include_patterns, token_info, temp_file, choice,
                   mods_available, glow_available, clean_repository,
                   clean_question, results, repo_info, validation, content_result,
                   estimated_cost, ai_response, trace, reported, exit_code, exit_at>>

NextScore == CalculateFileImportance

ScoreSpec == InitScore /\ [][NextScore]_vars

\* the file name of the scored path, lower-cased: what follows its last
\* slash (one that ends the path aside)
ScoredName ==
    LET path == Lower(filepath)
        n == IF Len(path) > 0 /\ path[Len(path)] = "/" THEN Len(path) - 1 ELSE Len(path)
        start == CHOOSE i \in 1..(n + 1) :
                     /\ \A j \in i..n : path[j] # "/"
                     /\ i = 1 \/ path[i - 1] = "/"
    IN  SubSeq(path, start, n)

\* s ends with one of the suffixes
HasSuffix(s, suffixes) ==
    \E suffix \in suffixes, i \in 0..Len(s) : SubSeq(s, i + 1, Len(s)) = suffix

\* rule number r of the priority order matches the scored path
RuleMatches(r) ==
    LET name == ScoredName
        path == Lower(filepath)
    IN  CASE r = 1 -> Occurs(<<"r", "e", "a", "d", "m", "e">>, name)
          [] r = 2 -> name \in license_names
          [] r = 3 -> \E dir \in docs_dirs : Occurs(dir, path)
          [] r = 4 -> HasSuffix(name, text_suffixes) /\ Occurs(<<"d", "o", "c">>, name)
          [] r = 5 -> name \in entry_names
          [] r = 6 -> name \in manifest_names
          [] r = 7 -> HasSuffix(name, source_suffixes) /\ ~Occurs(<<"t", "e", "s", "t">>, path)
          [] r = 8 -> HasSuffix(name, config_suffixes)
          [] r = 9 -> name \in build_names
          [] r = 10 -> Occurs(<<"t", "e", "s", "t">>, path) \/ Occurs(<<"s", "p", "e", "c">>, path)
          [] r = 11 -> Occurs(<<"e", "x", "a", "m", "p", "l", "e">>, path) \/ Occurs(<<"d", "e", "m", "o">>, path)
          [] OTHER -> TRUE

\* the base values of rules 1..11, and 0 when no rule matches
RuleValues == <<100, 90, 80, 75, 70, 65, 60, 40, 45, 20, 25, 0>>

\* the number of positions of the keyword list whose keyword occurs in the
\* lower-cased path
MatchingKeywords(question_keywords) ==
    Cardinality({i \in 1..Len(question_keywords) :
                    Occurs(question_keywords[i], Lower(filepath))})

\* C23: the score is the value of the first rule of the priority order that
\* matches, plus 30 for every keyword of the list that is a substring of
\* the lower-cased path; without keywords README.md scores 100,
\* src/main.py 70 and tests/test_foo.py 20.
C23_ImportanceScore ==
    (pc = "scored") =>
        \A returned \in score, question_keywords \in keywords :
            LET first == CHOOSE r \in 1..12 :
                             RuleMatches(r) /\ \A earlier \in 1..(r - 1) : ~RuleMatches(earlier)
            IN  /\ returned = RuleValues[first] + 30 * MatchingKeywords(question_keywords)
                /\ (question_keywords = <<>> /\ filepath = <<"R", "E", "A", "D", "M", "E", ".", "m", "d">>) => returned = 100
                /\ (question_keywords = <<>> /\ filepath = <<"s", "r", "c", "/", "m", "a", "i", "n", ".", "p", "y">>) => returned = 70
                /\ (question_keywords = <<>> /\ filepath = <<"t", "e", "s", "t", "s", "/", "t", "e", "s", "t", "_", "f", "o", "o", ".", "p", "y">>) => returned = 20

C23_Witness ==
    /\ pc = "scored"
    /\ filepath = <<"t", "e", "s", "t", "s", "/", "m", "a", "i", "n", ".", "p", "y">>
    /\ keywords = {<<<<"t", "e", "s", "t">>, <<"t", "e", "s", "t">>>>}
    /\ score = {130}

(***************************************************************************)
(* The backstop size filter on arbitrary contents                          *)
(***************************************************************************)
\* the largest --max-total-size enumerated, in MB
MaxCeilingMB == 2

\* numbers of characters: small ones, and those around 0.8 of a ceiling, a
\* third of a ceiling, a ceiling and two ceilings
CharCounts ==
    {0, 1, 56, 57, 100}
    \cup {max_chars(mb) + d : mb \in 1..MaxCeilingMB, d \in {0, 1}}
    \cup {max_total_size_bytes(mb) \div 3 + d : mb \in 1..MaxCeilingMB, d \in {0, 1}}
    \cup {max_total_size_bytes(mb) + d : mb \in 1..MaxCeilingMB, d \in {0, 1}}
    \cup {2 * max_total_size_bytes(mb) : mb \in 1..MaxCeilingMB}

\* contents that repeat one character of 1, 2, 3 or 4 UTF-8 bytes
FilterContents ==
    {[chars |-> n, bytes |-> n * width] : n \in CharCounts, width \in 1..4}

InitFilter ==
    /\ max_total_size \in 0..MaxCeilingMB
    /\ repository = <<>>
    /\ question = <<>>
    /\ dry_run = FALSE
    /\ force = FALSE
    /\ no_api = TRUE
    /\ api_key = FALSE
    /\ model = default_model
    /\ Fresh

\* ContentProcessor._filter_content_by_size on any of FilterContents
FilterContentBySize ==
    /\ pc = "check_key"
    /\ \E content \in FilterContents :
          content_result' =
              {[original_size |-> content.chars,
                original_bytes |-> content.bytes,
                filtered_size |-> filter_content_by_size(content, max_total_size),
                filtered_bytes |-> filtered_bytes(content, max_total_size)]}
    /\ pc' = "filtered"
    /\ UNCHANGED <<args, scoring, include_patterns, token_info, temp_file, choice,
                   keywords, mods_available, glow_available, clean_repository,
                   clean_question, results, repo_info, validation,
                   estimated_cost, ai_response, trace, reported, exit_code, exit_at>>

NextFilter == FilterContentBySize

FilterSpec == InitFilter /\ [][NextFilter]_vars

\* the ceiling in bytes
CeilingBytes == max_total_size * 1048576

\* C24: a content within the ceiling is returned unchanged; a content of
\* more bytes than the ceiling is cut to its first floor(0.8 * ceiling)
\* characters, the marker is appended, and the result is strictly shorter
\* than the content.
C24_BackstopTruncation ==
    (pc = "filtered") =>
        \A result \in content_result :
            IF result.original_bytes <= CeilingBytes
            THEN /\ result.filtered_size = result.original_size
                 /\ result.filtered_bytes = result.original_bytes
            ELSE /\ result.filtered_size =
                        Min(result.original_size, (4 * CeilingBytes) \div 5)
                            + WarningMsgLen(max_total_size)
                 /\ result.filtered_size < result.original_size

\* C28: what the filter returns, marker included, never has more UTF-8
\* bytes than the ceiling.
C28_FilteredBytesWithinCeiling ==
    (pc = "filtered") =>
        \A result \in content_result : result.filtered_bytes <= CeilingBytes

(***************************************************************************)
(* The token estimate on arbitrary lengths                                 *)
(***************************************************************************)
\* content lengths 0..MaxContentLen, and as many on either side of the
\* length at which the response estimate reaches its cap
MaxContentLen == 50

CappedAt == 4 * 10 * 1000

ContentLens ==
    (0..MaxContentLen) \cup ((CappedAt - MaxContentLen)..(CappedAt + MaxContentLen))

\* len(question)
QuestionLens == {0, 1, 3, 23}

InitEstimate ==
    /\ repository = <<>>
    /\ question = <<>>
    /\ dry_run = FALSE
    /\ force = FALSE
    /\ no_api = TRUE
    /\ max_total_size = 50
    /\ api_key = TRUE
    /\ model = default_model
    /\ Fresh

\* ContentProcessor.estimate_token_cost(content, question) for a content of
\* any of ContentLens characters and a question of any of QuestionLens
EstimateTokenCost ==
    /\ pc = "check_key"
    /\ \E content_len \in ContentLens, question_len \in QuestionLens :
          /\ content_result' = {[original_size |-> content_len, original_bytes |-> content_len,
                                 filtered_size |-> content_len, filtered_bytes |-> content_len]}
          /\ clean_question' = [i \in 1..question_len |-> "a"]
          /\ token_info' = {estimate_token_cost(content_len, question_len)}
    /\ pc' = "estimated"
    /\ UNCHANGED <<args, scoring, include_patterns, temp_file, choice,
                   keywords, mods_available, glow_available, clean_repository,
                   results, repo_info, validation,
                   estimated_cost, ai_response, trace, reported, exit_code, exit_at>>

NextEstimate == EstimateTokenCost

EstimateSpec == InitEstimate /\ [][NextEstimate]_vars

\* C25: prompt_tokens is (len(content) + len(question)) / 4 rounded down,
\* the response estimate is prompt_tokens / 10 rounded down and capped at
\* 1000, the total is their sum; and no shorter content gives, for the same
\* question, a larger prompt, response, total or cost.
C25_TokenEstimate ==
    (pc = "estimated") =>
        \A estimate \in token_info, result \in content_result :
            LET chars == result.filtered_size + Len(clean_question)
                prompt == estimate.prompt_tokens
                response == estimate.estimated_response_tokens
            IN  /\ 4 * prompt <= chars /\ chars < 4 * (prompt + 1)
                /\ response <= 1000 /\ 10 * response <= prompt
                /\ response = 1000 \/ prompt < 10 * (response + 1)
                /\ estimate.total_tokens = prompt + response
                /\ \A shorter \in ContentLens :
                      shorter <= result.filtered_size =>
                          LET less == estimate_token_cost(shorter, Len(clean_question))
                          IN  /\ less.prompt_tokens <= prompt
                              /\ less.estimated_response_tokens <= response
                              /\ less.total_tokens <= estimate.total_tokens
                              /\ less.estimated_cost <= estimate.estimated_cost

C25_Witness ==
    /\ pc = "estimated"
    /\ \E estimate \in token_info :
          /\ estimate.estimated_response_tokens = 1000
          /\ estimate.prompt_tokens > 10009

(***************************************************************************)
(* Runs with a --model option                                              *)
(***************************************************************************)
InitModel ==
    /\ repository \in RepositoryArgs
    /\ question \in QuestionArgs
    /\ dry_run \in BOOLEAN
    /\ force = FALSE
    /\ no_api \in BOOLEAN
    /\ max_total_size = 50
    /\ api_key = TRUE
    /\ model \in ModelArgs
    /\ Fresh

ModelSpec == InitModel /\ [][Next]_vars

\* C26: whenever the cost is estimated, the price entry used for the
\* estimate is the entry of the model selected with --model.
C26_EstimateUsesModelPrices ==
    InTrace("estimate") => pricing_model = model

(***************************************************************************)
(* Rendering                                                               *)
(***************************************************************************)
\* render_with_glow has returned in a run that is no dry run
Rendered == ~dry_run /\ ai_response # {} /\ pc # "render"

\* C27: when a response was generated and glow was not detected, the
\* Markdown is printed directly (the fallback display), no glow process is
\* spawned and no temporary file made, the render step succeeds and the
\* run ends with status 0.
C27_FallbackWithoutGlow ==
    (Rendered /\ ~glow_available) =>
        /\ "Fallback Display" \in reported
        /\ ~InTrace("glow")
        /\ temp_file = "none"
        /\ "Task Complete" \in reported
        /\ "Failed to render explanation" \notin reported
        /\ exit_code = {0}

C27_Witness ==
    /\ Rendered /\ ~glow_available
    /\ InTrace("mods")
    /\ exit_at = "return"

TableArgs ==
    UNION { { mock_results[i].term,
              <<" ">> \o mock_results[i].term \o <<" ">>,
              mock_results[i].term \o <<"$">> } : i \in 1..Len(mock_results) }

InitTable ==
    /\ repository \in TableArgs
    /\ question \in QuestionArgs
    /\ dry_run = TRUE
    /\ force = FALSE
    /\ no_api \in BOOLEAN
    /\ max_total_size = 50
    /\ api_key = FALSE
    /\ model = default_model
    /\ Fresh

TableSpec == InitTable /\ [][NextStrings]_vars

\* C29: without the API, a search term that is a key of the static table
\* is resolved to the owner and name of that key's entry.
C29_TableEntryReachable ==
    (no_api /\ InTrace("parse")) =>
        \A i \in 1..Len(mock_results) :
            Strip(clean_repository) = mock_results[i].term =>
                /\ repo_info.owner = mock_results[i].owner
                /\ repo_info.name = mock_results[i].repo

=============================================================================
